---- MODULE Spec2Model ----
(***************************************************************************)
(* State-machine model of the AAA Summarizer (reports_app + survey_app):   *)
(* the per faculty-year records, the departmental record, the survey       *)
(* responses with carry-forward, and the review overlay.                   *)
(***************************************************************************)
EXTENDS Integers, Sequences, FiniteSets, TLC

VARIABLES
    faculty,        \* FacultyMember rows: email -> [is_active, is_ccc_member, is_avc_eligible]
    academic_years, \* AcademicYear rows: year_code -> [exists, is_current]
    dept,           \* DepartmentalData rows: <<email, year>> -> record (exists = FALSE: no row)
    fsd,            \* FacultySurveyData rows: <<email, year>> -> record (exists = FALSE: no row)
    survey_imports, \* SurveyImport rows, oldest first
    campaigns,      \* SurveyCampaign rows: <<year, quarter>> -> [exists, is_active, window]
    invitation,     \* SurveyInvitation rows of SurveyFaculty: <<year, quarter>> -> record
    response,       \* SurveyResponse rows of SurveyFaculty: <<year, quarter>> -> record
    activity_types, \* ActivityType rows: survey key of the data_variable -> record
    point_values,   \* survey_config.POINT_VALUES of the running process: key -> points
    rendered,       \* what the last read-only request computed
    inflight,       \* a manual-activity request between its read and its save
    reviews,        \* ActivityReview rows: a set of [faculty, year, category, subcategory, idx, status]
    annual          \* FacultyAnnualReview rows: <<email, year>> -> "absent" | "verified" | "has_issues"

rosterVars == <<faculty, academic_years>>
deptVars == <<dept>>
recVars == <<fsd, survey_imports>>
surveyVars == <<campaigns, invitation, response>>
reviewVars == <<reviews, annual>>
configVars == <<activity_types, point_values>>
\* the variables only the requests of the later sections write
auxVars == <<activity_types, point_values, rendered, inflight>>
vars == <<faculty, academic_years, dept, fsd, survey_imports, campaigns, invitation, response, reviews, annual,
          activity_types, point_values, rendered, inflight>>

(***************************************************************************)
(* Bounds of the model                                                     *)
(***************************************************************************)
MaxRawCount == 27          \* largest raw mytip_count a caller tries to store
MaxManual == 2             \* manual entries kept in one subsection list
MaxImports == 2            \* SurveyImport rows kept
MaxEmails == 2             \* confirmation emails logged for one invitation

(***************************************************************************)
(* Universe                                                                *)
(***************************************************************************)
Faculty == {"f1", "f2"}
Years == {"24-25", "25-26"}
CurrentYear == "24-25"     \* the year AcademicYear.get_current() returns
YearCodes == Years \cup {"26-27"}   \* the year codes an administrator creates or posts

Min(a, b) == IF a <= b THEN a ELSE b

\* A nullable value: None is set = FALSE
None == [set |-> FALSE, value |-> 0]
Some(n) == [set |-> TRUE, value |-> n]

Cats == {"citizenship", "education", "research", "leadership", "content_expert"}
Subs == {"committees", "dept_activities", "lectures", "grant_review", "thesis_committees",
         "publications_peer"}

(***************************************************************************)
(* Activity trees {category: {subsection: value}}.  A JSON tree is kept as *)
(* a total function with presence flags, so that "key in dict" is          *)
(* present = TRUE.  A subsection value is a list of entries (parser and    *)
(* manual format) or a dict {trigger, entries} (survey format).  An entry  *)
(* is a record; a key the entry lacks holds "" (or 0 for points).          *)
(***************************************************************************)
\* The 'impact_factor' value of an entry: the key is missing, or it holds a text that
\* float() rejects, or a text that float() reads as minus infinity ('-inf', '-1e999'),
\* or a decimal number, kept in tenths
NoImpactFactor == [kind |-> "missing", tenths |-> 0]
TextImpactFactor == [kind |-> "text", tenths |-> 0]
NegInfImpactFactor == [kind |-> "neg_inf", tenths |-> 0]
NumberImpactFactor(tenths) == [kind |-> "number", tenths |-> tenths]

AbsentSub == [present |-> FALSE, fmt |-> "list", trigger |-> "", entries |-> <<>>]
AbsentCat == [present |-> FALSE, subs |-> [s \in Subs |-> AbsentSub]]
EmptyTree == [c \in Cats |-> AbsentCat]

ListSub(entries) == [present |-> TRUE, fmt |-> "list", trigger |-> "", entries |-> entries]
DictSub(trigger, entries) ==
    [present |-> TRUE, fmt |-> "dict", trigger |-> trigger, entries |-> entries]

MkEntry(type, carried_from, source, points) ==
    [type |-> type, carried_from |-> carried_from, source |-> source, points |-> points,
     role |-> "", other |-> "", impact_factor |-> NoImpactFactor]

\* tree[cat][sub] = value, creating the category when missing
TreeSet(tree, cat, sub, value) ==
    [tree EXCEPT ![cat] = [present |-> TRUE, subs |-> [@.subs EXCEPT ![sub] = value]]]

TreeHas(tree, cat, sub) == tree[cat].present /\ tree[cat].subs[sub].present

SumCats(points) ==
    points["citizenship"] + points["education"] + points["research"]
    + points["leadership"] + points["content_expert"]

ZeroPoints == [c \in Cats |-> 0]

(***************************************************************************)
(* DepartmentalData (reports_app/models.py)                                *)
(***************************************************************************)
MytipCap == 20

PV_new_innovations == 2000
PV_mytip_winner == 250
PV_mytip_per == 25
PV_teaching_top_25 == 2500
PV_teaching_65_25 == 1000
PV_teacher_of_year == 7500
PV_honorable_mention == 5000
PV_ccc_member == 1000

DeptFlags == {"new_innovations", "mytip_winner", "teaching_top_25",
              "teaching_65_25", "teacher_of_year", "honorable_mention"}

\* A row as get_or_create makes it: every field at its default.
NewDept == [exists |-> TRUE, new_innovations |-> FALSE, mytip_winner |-> FALSE,
            mytip_count |-> 0, teaching_top_25 |-> FALSE, teaching_65_25 |-> FALSE,
            teacher_of_year |-> FALSE, honorable_mention |-> FALSE]

NoDept == [NewDept EXCEPT !.exists = FALSE]

\* A mutant of save that stores the raw count.
DeptSaveNoClamp(rec) == rec

\* DepartmentalData.save: a count above the maximum is stored as the maximum
DeptSave(rec) ==
    IF rec.mytip_count > MytipCap THEN [rec EXCEPT !.mytip_count = MytipCap] ELSE rec

\* departmental_update: min(int(value), 20)
UpdateClamp(value) == Min(value, MytipCap)

evaluations_pointsUncapped(rec) ==
    (IF rec.new_innovations THEN PV_new_innovations ELSE 0)
    + (IF rec.mytip_winner THEN PV_mytip_winner ELSE 0)
    + rec.mytip_count * PV_mytip_per

evaluations_points(rec) ==
    (IF rec.new_innovations THEN PV_new_innovations ELSE 0)
    + (IF rec.mytip_winner THEN PV_mytip_winner ELSE 0)
    + Min(rec.mytip_count, MytipCap) * PV_mytip_per

teaching_awards_points(rec) ==
    (IF rec.teaching_top_25 THEN PV_teaching_top_25 ELSE 0)
    + (IF rec.teaching_65_25 THEN PV_teaching_65_25 ELSE 0)
    + (IF rec.teacher_of_year THEN PV_teacher_of_year ELSE 0)
    + (IF rec.honorable_mention THEN PV_honorable_mention ELSE 0)

ccc_points(f) == IF faculty[f].is_ccc_member THEN PV_ccc_member ELSE 0

departmental_total_points(f, y) ==
    evaluations_points(dept[<<f, y>>]) + teaching_awards_points(dept[<<f, y>>]) + ccc_points(f)

\* get_or_create(faculty, academic_year) on DepartmentalData
DeptGetOrCreate(d, f, y) ==
    IF d[<<f, y>>].exists THEN d ELSE [d EXCEPT ![<<f, y>>] = NewDept]

\* departmental_update, field = 'mytip_count', value a non-negative integer
DepartmentalUpdateMytip(f, y, value) ==
    LET d1 == DeptGetOrCreate(dept, f, y)
        rec == [d1[<<f, y>>] EXCEPT !.mytip_count = UpdateClamp(value)]
    IN  /\ dept' = [d1 EXCEPT ![<<f, y>>] = DeptSave(rec)]
        /\ UNCHANGED <<auxVars, rosterVars, recVars, surveyVars, reviewVars>>

\* departmental_update, field one of the six boolean fields
DepartmentalUpdateFlag(f, y, field, value) ==
    LET d1 == DeptGetOrCreate(dept, f, y)
        rec == [d1[<<f, y>>] EXCEPT ![field] = value]
    IN  /\ field \in DeptFlags
        /\ dept' = [d1 EXCEPT ![<<f, y>>] = DeptSave(rec)]
        /\ UNCHANGED <<auxVars, rosterVars, recVars, surveyVars, reviewVars>>

\* departmental_update, field = 'is_ccc_member' / 'is_avc_eligible': stored on the faculty row
DepartmentalUpdateFaculty(f, y, field, value) ==
    /\ field \in {"is_ccc_member", "is_avc_eligible"}
    /\ dept' = DeptGetOrCreate(dept, f, y)
    /\ faculty' = [faculty EXCEPT ![f][field] = value]
    /\ UNCHANGED <<auxVars, academic_years, recVars, surveyVars, reviewVars>>

\* departmental_update with a field name none of the branches handles: only the get_or_create
DepartmentalUpdateOther(f, y) ==
    /\ ~dept[<<f, y>>].exists
    /\ dept' = DeptGetOrCreate(dept, f, y)
    /\ UNCHANGED <<auxVars, rosterVars, recVars, surveyVars, reviewVars>>

\* A caller that assigns mytip_count and calls DepartmentalData.save()
ModelSave(f, y, value) ==
    /\ dept[<<f, y>>].exists
    /\ dept' = [dept EXCEPT ![<<f, y>>] = DeptSave([@ EXCEPT !.mytip_count = value])]
    /\ UNCHANGED <<auxVars, rosterVars, recVars, surveyVars, reviewVars>>

\* faculty_edit (POST): the posted checkboxes replace both flags
FacultyEdit(f, is_active, is_ccc_member) ==
    /\ faculty' = [faculty EXCEPT ![f].is_active = is_active,
                                  ![f].is_ccc_member = is_ccc_member]
    /\ UNCHANGED <<auxVars, academic_years, deptVars, recVars, surveyVars, reviewVars>>

\* toggle_ccc
ToggleCcc(f) ==
    /\ faculty' = [faculty EXCEPT ![f].is_ccc_member = ~@]
    /\ UNCHANGED <<auxVars, academic_years, deptVars, recVars, surveyVars, reviewVars>>

NoYear == [exists |-> FALSE, is_current |-> FALSE]

\* AcademicYear.save() of the row y with the given is_current: a row saved as current
\* first clears is_current on every row
YearSave(years, y, is_current) ==
    [z \in YearCodes |->
        IF z = y THEN [exists |-> TRUE, is_current |-> is_current]
        ELSE IF is_current THEN [years[z] EXCEPT !.is_current = FALSE]
        ELSE years[z]]

\* AcademicYear.get_current(): the year of today's date is created as current when
\* missing and saved as current when it exists and is not; it is the year returned
GetCurrentRows(years) ==
    IF years[CurrentYear].exists /\ years[CurrentYear].is_current THEN years
    ELSE YearSave(years, CurrentYear, TRUE)

\* academic_year_list: the page shows AcademicYear.get_current()
AcademicYearList ==
    /\ academic_years' = GetCurrentRows(academic_years)
    /\ rendered' = [kind |-> "year_list", current_year |-> CurrentYear]
    /\ UNCHANGED <<activity_types, point_values, inflight, faculty, deptVars, recVars,
                   surveyVars, reviewVars>>

\* set_current_year (POST): an existing year is saved with is_current = True
SetCurrentYear(year_code) ==
    /\ academic_years' = IF academic_years[year_code].exists
                         THEN YearSave(academic_years, year_code, TRUE)
                         ELSE academic_years
    /\ rendered' = [kind |-> "message",
                    text |-> IF academic_years[year_code].exists
                             THEN "Set as current academic year"
                             ELSE "Academic year not found"]
    /\ UNCHANGED <<activity_types, point_values, inflight, faculty, deptVars, recVars,
                   surveyVars, reviewVars>>

\* create_year (POST) with a well-formed code: get_or_create with is_current = False
CreateYear(year_code) ==
    /\ academic_years' = IF academic_years[year_code].exists THEN academic_years
                         ELSE YearSave(academic_years, year_code, FALSE)
    /\ rendered' = [kind |-> "message",
                    text |-> IF academic_years[year_code].exists
                             THEN "already exists" ELSE "Created academic year"]
    /\ UNCHANGED <<activity_types, point_values, inflight, faculty, deptVars, recVars,
                   surveyVars, reviewVars>>

(***************************************************************************)
(* FacultySurveyData and the CSV import (reports_app/views.py)             *)
(***************************************************************************)
NoFsd == [exists |-> FALSE, survey_import |-> 0, quarters_reported |-> {},
          has_incomplete |-> FALSE, points |-> ZeroPoints, survey_total_points |-> 0,
          activities_json |-> EmptyTree, manual_activities_json |-> EmptyTree]

\* A row as get_or_create makes it: every field at its default.
NewFsd == [NoFsd EXCEPT !.exists = TRUE]

\* str.lower() on the e-mail addresses of the model
Lower(email) == IF email = "F1" THEN "f1" ELSE email

\* totals['total'] of a parsed CSV row: the parser's grand total of the five categories
ParsedTotal(totals) == SumCats(totals)

\* One faculty entry of the parsed CSV (the parser's output): the activity tree,
\* the five category totals and their grand total.
ParsedRow(email, activities, totals, quarters) ==
    [email |-> email, activities |-> activities, totals |-> totals,
     total |-> ParsedTotal(totals), quarters_reported |-> quarters, has_incomplete |-> FALSE]

RosterLookupInactiveToo(email) ==
    IF \E f \in Faculty : Lower(f) = Lower(email)
    THEN CHOOSE f \in Faculty : Lower(f) = Lower(email)
    ELSE ""

\* roster_lookup.get(email.lower()): the active roster member, "" when none
RosterLookup(email) ==
    IF \E f \in Faculty : faculty[f].is_active /\ Lower(f) = Lower(email)
    THEN CHOOSE f \in Faculty : faculty[f].is_active /\ Lower(f) = Lower(email)
    ELSE ""

\* A mutant of the import that resets the manual tree.
ImportDefaultsDropManual(existing, data, import_id) ==
    [exists |-> TRUE, survey_import |-> import_id,
     quarters_reported |-> data.quarters_reported, has_incomplete |-> data.has_incomplete,
     points |-> data.totals, survey_total_points |-> data.total,
     activities_json |-> data.activities, manual_activities_json |-> EmptyTree]

\* A mutant of the import that adds the file's totals to the stored ones.
ImportDefaultsAccumulate(existing, data, import_id) ==
    [exists |-> TRUE, survey_import |-> import_id,
     quarters_reported |-> data.quarters_reported, has_incomplete |-> data.has_incomplete,
     points |-> [c \in Cats |-> existing.points[c] + data.totals[c]],
     survey_total_points |-> existing.survey_total_points + data.total,
     activities_json |-> data.activities,
     manual_activities_json |-> existing.manual_activities_json]

\* The defaults import_confirm hands to update_or_create for one matched row: the file's
\* tree and totals, and the manual tree of the existing row
ImportDefaults(existing, data, import_id) ==
    [exists |-> TRUE, survey_import |-> import_id,
     quarters_reported |-> data.quarters_reported, has_incomplete |-> data.has_incomplete,
     points |-> data.totals, survey_total_points |-> data.total,
     activities_json |-> data.activities,
     manual_activities_json |->
        IF existing.exists THEN existing.manual_activities_json ELSE EmptyTree]

\* The loop of import_confirm over the rows of the file, in file order.
\* acc = [fsd, dept, matched_count, unmatched_emails]
RECURSIVE ImportLoop(_, _, _, _)
ImportLoop(rows, y, import_id, acc) ==
    IF rows = <<>> THEN acc
    ELSE LET data == Head(rows)
             f == RosterLookup(data.email)
         IN  IF f # ""
             THEN ImportLoop(Tail(rows), y, import_id,
                    [acc EXCEPT !.fsd[<<f, y>>] = ImportDefaults(@, data, import_id),
                                !.dept = DeptGetOrCreate(@, f, y),
                                !.matched_count = @ + 1])
             ELSE ImportLoop(Tail(rows), y, import_id,
                    [acc EXCEPT !.unmatched_emails = Append(@, data.email)])

ImportResult(rows, y) ==
    ImportLoop(rows, y, Len(survey_imports) + 1,
               [fsd |-> fsd, dept |-> dept, matched_count |-> 0, unmatched_emails |-> <<>>])

\* import_confirm: the session holds the parsed file (its name and rows) for year y
ImportConfirm(file, y) ==
    LET r == ImportResult(file.rows, y)
    IN  /\ Len(survey_imports) < MaxImports
        /\ fsd' = r.fsd
        /\ dept' = r.dept
        /\ survey_imports' = Append(survey_imports,
              [academic_year |-> y, filename |-> file.filename,
               faculty_count |-> Len(file.rows), unmatched_emails |-> r.unmatched_emails])
        /\ UNCHANGED <<auxVars, rosterVars, surveyVars, reviewVars>>

(***************************************************************************)
(* Manual activities (add_activity_form, edit_activity, delete_activity)   *)
(***************************************************************************)
ManualList(rec, cat, sub) ==
    IF TreeHas(rec.manual_activities_json, cat, sub)
    THEN rec.manual_activities_json[cat].subs[sub].entries ELSE <<>>

\* add_activity_form (POST): append the entry to manual_activities_json[cat][sub]
AddActivityForm(f, y, cat, sub, type, points) ==
    LET rec == IF fsd[<<f, y>>].exists THEN fsd[<<f, y>>] ELSE NewFsd
        entry == MkEntry(type, "", "manual", points)
        lst == Append(ManualList(rec, cat, sub), entry)
    IN  /\ cat \in Cats
        /\ Len(ManualList(rec, cat, sub)) < MaxManual
        /\ fsd' = [fsd EXCEPT ![<<f, y>>] =
                     [rec EXCEPT !.manual_activities_json = TreeSet(@, cat, sub, ListSub(lst))]]
        /\ UNCHANGED <<auxVars, rosterVars, deptVars, survey_imports, surveyVars, reviewVars>>

\* edit_activity (POST): rewrite the fields of the index-th manual entry
EditActivity(f, y, cat, sub, index, type, points) ==
    LET rec == fsd[<<f, y>>]
        lst == ManualList(rec, cat, sub)
    IN  /\ cat \in Cats
        /\ rec.exists
        /\ TreeHas(rec.manual_activities_json, cat, sub)
        /\ index < Len(lst)
        /\ fsd' = [fsd EXCEPT ![<<f, y>>].manual_activities_json =
                     TreeSet(@, cat, sub,
                             ListSub([lst EXCEPT ![index + 1] = MkEntry(type, "", "manual", points)]))]
        /\ UNCHANGED <<auxVars, rosterVars, deptVars, survey_imports, surveyVars, reviewVars>>

RemoveAt(lst, index) ==
    [i \in 1..(Len(lst) - 1) |-> IF i <= index THEN lst[i] ELSE lst[i + 1]]

\* del manual[cat][sub][index], then drop the subsection and the category when empty
TreeDelete(tree, cat, sub, index) ==
    LET lst == RemoveAt(tree[cat].subs[sub].entries, index)
        subs1 == [tree[cat].subs EXCEPT ![sub] = IF lst = <<>> THEN AbsentSub ELSE ListSub(lst)]
    IN  [tree EXCEPT ![cat] =
            IF \E s \in Subs : subs1[s].present
            THEN [present |-> TRUE, subs |-> subs1] ELSE AbsentCat]

\* delete_activity
DeleteActivity(f, y, cat, sub, index) ==
    LET rec == fsd[<<f, y>>]
    IN  /\ cat \in Cats
        /\ rec.exists
        /\ TreeHas(rec.manual_activities_json, cat, sub)
        /\ index < Len(ManualList(rec, cat, sub))
        /\ fsd' = [fsd EXCEPT ![<<f, y>>].manual_activities_json = TreeDelete(@, cat, sub, index)]
        /\ UNCHANGED <<auxVars, rosterVars, deptVars, survey_imports, surveyVars, reviewVars>>

(***************************************************************************)
(* The manual requests in two steps.  A request loads the row into a model *)
(* instance, changes manual_activities_json of the instance, and save()    *)
(* later writes every column of the instance; nothing locks the row in     *)
(* between, so another request can commit between the two steps.           *)
(***************************************************************************)
ManualOps == {"add", "edit", "delete"}

\* What the request may do with the row it has read
ManualAllowed(op, rec, cat, sub, index) ==
    CASE op = "add" -> Len(ManualList(rec, cat, sub)) < MaxManual
      [] op = "edit" ->
            rec.exists /\ TreeHas(rec.manual_activities_json, cat, sub)
            /\ index < Len(ManualList(rec, cat, sub))
      [] op = "delete" ->
            rec.exists /\ TreeHas(rec.manual_activities_json, cat, sub)
            /\ index < Len(ManualList(rec, cat, sub))

\* edit_activity and delete_activity when the target is not there: an unknown category,
\* no record for the year, a subsection the manual tree does not hold, or an index at
\* or beyond the length of the list; an error message and a redirect, nothing is saved
ManualNotFound(op, f, y, cat, sub, index) ==
    /\ op \in {"edit", "delete"}
    /\ IF cat \notin Cats \/ ~fsd[<<f, y>>].exists THEN TRUE
       ELSE ~ManualAllowed(op, fsd[<<f, y>>], cat, sub, index)
    /\ rendered' = [kind |-> "message",
                    text |-> IF cat \notin Cats THEN "Unknown category"
                             ELSE IF ~fsd[<<f, y>>].exists THEN "No survey data found."
                             ELSE "Activity not found."]
    /\ UNCHANGED <<activity_types, point_values, inflight, rosterVars, deptVars, recVars,
                   surveyVars, reviewVars>>

\* The manual tree of the instance after the request's change
ManualChanged(op, rec, cat, sub, index, type, points) ==
    CASE op = "add" ->
            TreeSet(rec.manual_activities_json, cat, sub,
                    ListSub(Append(ManualList(rec, cat, sub), MkEntry(type, "", "manual", points))))
      [] op = "edit" ->
            TreeSet(rec.manual_activities_json, cat, sub,
                    ListSub([ManualList(rec, cat, sub) EXCEPT ![index + 1] =
                                MkEntry(type, "", "manual", points)]))
      [] op = "delete" -> TreeDelete(rec.manual_activities_json, cat, sub, index)

\* The request up to its save(): add_activity_form creates the row when missing
\* (get_or_create); the instance holds the columns as read and the changed manual tree
ManualBegin(op, f, y, cat, sub, index, type, points) ==
    LET rec == IF fsd[<<f, y>>].exists \/ op # "add" THEN fsd[<<f, y>>] ELSE NewFsd
    IN  /\ op \in ManualOps /\ cat \in Cats
        /\ inflight.phase = "idle"
        /\ ManualAllowed(op, rec, cat, sub, index)
        /\ fsd' = [fsd EXCEPT ![<<f, y>>] = rec]
        /\ inflight' = [phase |-> "read", faculty |-> f, year |-> y,
                        survey_data |-> [rec EXCEPT !.manual_activities_json =
                            ManualChanged(op, rec, cat, sub, index, type, points)]]
        /\ UNCHANGED <<activity_types, point_values, rendered, rosterVars, deptVars,
                       survey_imports, surveyVars, reviewVars>>

\* survey_data.save() of the request: every column of the instance is written
ManualFinish ==
    /\ inflight.phase = "read"
    /\ fsd' = [fsd EXCEPT ![<<inflight.faculty, inflight.year>>] = inflight.survey_data]
    /\ inflight' = [phase |-> "idle"]
    /\ UNCHANGED <<activity_types, point_values, rendered, rosterVars, deptVars,
                   survey_imports, surveyVars, reviewVars>>

(***************************************************************************)
(* get_combined_activities: imported entries followed by the manual ones   *)
(***************************************************************************)
RECURSIVE TagManual(_)
TagManual(entries) ==
    IF entries = <<>> THEN <<>>
    ELSE <<[Head(entries) EXCEPT !.source = "manual"]>> \o TagManual(Tail(entries))

\* list.append on a subsection the imported tree holds as a dict raises AttributeError
CombinedFails(rec) ==
    \E c \in Cats, sb \in Subs :
        /\ TreeHas(rec.manual_activities_json, c, sb)
        /\ rec.manual_activities_json[c].subs[sb].entries # <<>>
        /\ TreeHas(rec.activities_json, c, sb)
        /\ rec.activities_json[c].subs[sb].fmt = "dict"

CombinedSub(rec, c, sb) ==
    LET imp == rec.activities_json[c].subs[sb]
        man == rec.manual_activities_json[c].subs[sb]
    IN  IF ~TreeHas(rec.manual_activities_json, c, sb) THEN
            IF TreeHas(rec.activities_json, c, sb) THEN imp ELSE AbsentSub
        ELSE IF TreeHas(rec.activities_json, c, sb)
             THEN [imp EXCEPT !.entries = @ \o TagManual(man.entries)]
             ELSE ListSub(TagManual(man.entries))

CombinedActivities(rec) ==
    [c \in Cats |->
        [present |-> rec.activities_json[c].present \/ rec.manual_activities_json[c].present,
         subs |-> [sb \in Subs |-> CombinedSub(rec, c, sb)]]]

\* The entries of one subsection as the page lists them: a copy of each entry, and for
\* an entry whose source is 'manual' the category, the subsection and manual_index, a
\* counter that starts at 0 and counts the manual entries of the list only
RECURSIVE EnrichEntriesCountAll(_, _, _, _)
EnrichEntriesCountAll(entries, cat, sub, manual_index) ==
    IF entries = <<>> THEN <<>>
    ELSE LET entry == Head(entries)
         IN  << IF entry.source = "manual"
                THEN [entry |-> entry, category |-> cat, subcategory |-> sub,
                      index |-> Some(manual_index)]
                ELSE [entry |-> entry, category |-> "", subcategory |-> "", index |-> None] >>
             \o EnrichEntriesCountAll(Tail(entries), cat, sub, manual_index + 1)

RECURSIVE EnrichEntries(_, _, _, _)
EnrichEntries(entries, cat, sub, manual_index) ==
    IF entries = <<>> THEN <<>>
    ELSE LET entry == Head(entries)
         IN  IF entry.source = "manual"
             THEN << [entry |-> entry, category |-> cat, subcategory |-> sub,
                      index |-> Some(manual_index)] >>
                  \o EnrichEntries(Tail(entries), cat, sub, manual_index + 1)
             ELSE << [entry |-> entry, category |-> "", subcategory |-> "", index |-> None] >>
                  \o EnrichEntries(Tail(entries), cat, sub, manual_index)

\* activity_summary of faculty_activities: a list subsection is enriched, the entries
\* of a {trigger, entries} subsection are copied without an index
ActivitySummary(combined) ==
    [c \in Cats |-> [sb \in Subs |->
        LET value == combined[c].subs[sb]
        IN  IF ~(combined[c].present /\ value.present) THEN <<>>
            ELSE IF value.fmt = "list" THEN EnrichEntries(value.entries, c, sb, 0)
            ELSE [i \in 1..Len(value.entries) |->
                    [entry |-> value.entries[i], category |-> "", subcategory |-> "",
                     index |-> None]]]]

\* faculty_activities: the page of one faculty member's activities, built from
\* get_combined_activities of the record; the AttributeError is not caught
FacultyActivities(f, y) ==
    /\ fsd[<<f, y>>].exists
    /\ rendered' = IF CombinedFails(fsd[<<f, y>>]) THEN [kind |-> "error"]
                   ELSE [kind |-> "combined", combined |-> CombinedActivities(fsd[<<f, y>>]),
                         activity_summary |->
                             ActivitySummary(CombinedActivities(fsd[<<f, y>>]))]
    /\ UNCHANGED <<activity_types, point_values, inflight, rosterVars, deptVars, recVars,
                   surveyVars, reviewVars>>

(***************************************************************************)
(* Review overlay: activity_review_action (reports_app/views.py)           *)
(***************************************************************************)
ReviewRow(f, y, cat, sub, idx, status) ==
    [faculty |-> f, year |-> y, category |-> cat, subcategory |-> sub,
     idx |-> idx, status |-> status]

ReviewsOf(rs, f, y, cat, sub, idx) ==
    {r \in rs : /\ r.faculty = f /\ r.year = y /\ r.category = cat
                /\ r.subcategory = sub /\ r.idx = idx}

\* A mutant of update_or_create that always inserts a new row.
ReviewUpsertInsertOnly(rs, f, y, cat, sub, idx, status) ==
    rs \cup {ReviewRow(f, y, cat, sub, idx, status)}

\* ActivityReview.objects.update_or_create(key, defaults = {status}): the one row of
\* the key is updated, a missing one is created, several rows raise
\* MultipleObjectsReturned (nothing is written).
ReviewUpsert(rs, f, y, cat, sub, idx, status) ==
    LET old == ReviewsOf(rs, f, y, cat, sub, idx)
    IN  IF Cardinality(old) > 1 THEN rs
        ELSE (rs \ old) \cup {ReviewRow(f, y, cat, sub, idx, status)}

\* ActivityReview.objects.filter(key).delete()
ReviewClear(rs, f, y, cat, sub, idx) == rs \ ReviewsOf(rs, f, y, cat, sub, idx)

StatusMap(action) ==
    CASE action = "verify" -> "verified"
      [] action = "flag" -> "flagged"
      [] action = "strike" -> "stricken"

HasIssues(rs, f, y) ==
    \E r \in rs : r.faculty = f /\ r.year = y /\ r.status \in {"stricken", "flagged"}

\* action = verify_all
VerifyAll(f) ==
    /\ annual' = [annual EXCEPT ![<<f, CurrentYear>>] = "verified"]
    /\ UNCHANGED <<auxVars, reviews, rosterVars, deptVars, recVars, surveyVars>>

\* action = unverify_all
UnverifyAll(f) ==
    /\ annual' = [annual EXCEPT ![<<f, CurrentYear>>] = "absent"]
    /\ reviews' = {r \in reviews : ~(r.faculty = f /\ r.year = CurrentYear)}
    /\ UNCHANGED <<auxVars, rosterVars, deptVars, recVars, surveyVars>>

\* The rows verify_section writes for one subsection: indices 0 .. len(entry_list) - 1
RECURSIVE VerifyEntries(_, _, _, _, _)
VerifyEntries(rs, f, cat, sub, n) ==
    IF n = 0 THEN rs
    ELSE VerifyEntries(ReviewUpsert(rs, f, CurrentYear, cat, sub, n - 1, "verified"),
                       f, cat, sub, n - 1)

RECURSIVE VerifySubs(_, _, _, _, _)
VerifySubs(rs, f, cat, combined, subs) ==
    IF subs = {} THEN rs
    ELSE LET sb == CHOOSE x \in subs : TRUE
             n == IF combined[cat].subs[sb].present
                  THEN Len(combined[cat].subs[sb].entries) ELSE 0
         IN  VerifySubs(VerifyEntries(rs, f, cat, sb, n), f, cat, combined, subs \ {sb})

\* action = verify_section
VerifySection(f, cat) ==
    LET rec == fsd[<<f, CurrentYear>>]
    IN  /\ cat \in Cats
        /\ rec.exists
        /\ ~CombinedFails(rec)
        /\ CombinedActivities(rec)[cat].present
        /\ reviews' = VerifySubs(reviews, f, cat, CombinedActivities(rec), Subs)
        /\ UNCHANGED <<auxVars, annual, rosterVars, deptVars, recVars, surveyVars>>

\* action = verify | flag | strike on one entry
ReviewEntry(f, action, cat, sub, idx) ==
    LET rs1 == ReviewUpsert(reviews, f, CurrentYear, cat, sub, idx, StatusMap(action))
    IN  /\ action \in {"verify", "flag", "strike"}
        /\ reviews' = rs1
        /\ annual' = IF HasIssues(rs1, f, CurrentYear)
                      THEN [annual EXCEPT ![<<f, CurrentYear>>] = "has_issues"]
                      ELSE annual
        /\ UNCHANGED <<auxVars, rosterVars, deptVars, recVars, surveyVars>>

\* action = clear on one entry
ClearEntry(f, cat, sub, idx) ==
    /\ reviews' = ReviewClear(reviews, f, CurrentYear, cat, sub, idx)
    /\ UNCHANGED <<auxVars, annual, rosterVars, deptVars, recVars, surveyVars>>

(***************************************************************************)
(* Activity types and their point calculation (reports_app/models.py)      *)
(***************************************************************************)
\* Python truth of a nullable integer: None and 0 are both false
Truthy(x) == x.set /\ x.value # 0

ModifierChoices == {"fixed", "count", "impact_factor"}

NoActivityType ==
    [exists |-> FALSE, base_points |-> 0, modifier_type |-> "fixed",
     max_count |-> None, max_points |-> None, is_active |-> FALSE]

Max(a, b) == IF a >= b THEN a ELSE b

ImpactFactorMin == 1
ImpactFactorMax == 15

\* The final cap of calculate_points
CapPoints(at, points) ==
    IF Truthy(at.max_points) THEN Min(points, at.max_points.value) ELSE points

\* The effective count of a count-modified type
EffectiveCount(at, count) ==
    IF Truthy(at.max_count) THEN Min(count, at.max_count.value) ELSE count

\* The effective impact factor of an impact-factor type
EffectiveIfNoFloor(impact_factor) == Min(impact_factor, ImpactFactorMax)

EffectiveIf(impact_factor) == Max(ImpactFactorMin, Min(impact_factor, ImpactFactorMax))

\* ActivityType.calculate_points(count, impact_factor)
calculate_points(at, count, impact_factor) ==
    LET points ==
            CASE at.modifier_type = "fixed" -> at.base_points
              [] at.modifier_type = "count" -> at.base_points * EffectiveCount(at, count)
              [] at.modifier_type = "impact_factor" ->
                     at.base_points * EffectiveIf(impact_factor)
              [] OTHER -> at.base_points
    IN  CapPoints(at, points)

NoRender == [kind |-> "none"]

\* A caller evaluates calculate_points of a stored type
CalculatePoints(k, count, impact_factor) ==
    /\ activity_types[k].exists
    /\ rendered' = [kind |-> "points", count |-> count, impact_factor |-> impact_factor,
                    points |-> calculate_points(activity_types[k], count, impact_factor)]
    /\ UNCHANGED <<activity_types, point_values, inflight, rosterVars, deptVars, recVars,
                   surveyVars, reviewVars>>

\* activity_type_create: a new row, refused when the data_variable is taken
ActivityTypeCreate(k, base_points, modifier_type, max_count, max_points) ==
    /\ ~activity_types[k].exists
    /\ activity_types' = [activity_types EXCEPT ![k] =
           [exists |-> TRUE, base_points |-> base_points, modifier_type |-> modifier_type,
            max_count |-> max_count, max_points |-> max_points, is_active |-> TRUE]]
    /\ UNCHANGED <<point_values, rendered, inflight, rosterVars, deptVars, recVars,
                   surveyVars, reviewVars>>

\* activity_type_edit (POST): every posted column is written
ActivityTypeEdit(k, base_points, modifier_type, max_count, max_points, is_active) ==
    /\ activity_types[k].exists
    /\ activity_types' = [activity_types EXCEPT ![k] =
           [exists |-> TRUE, base_points |-> base_points, modifier_type |-> modifier_type,
            max_count |-> max_count, max_points |-> max_points, is_active |-> is_active]]
    /\ UNCHANGED <<point_values, rendered, inflight, rosterVars, deptVars, recVars,
                   surveyVars, reviewVars>>

\* activity_type_quick_edit: save(update_fields=['base_points'])
ActivityTypeQuickEdit(k, base_points) ==
    /\ activity_types[k].exists
    /\ activity_types' = [activity_types EXCEPT ![k].base_points = base_points]
    /\ UNCHANGED <<point_values, rendered, inflight, rosterVars, deptVars, recVars,
                   surveyVars, reviewVars>>

(***************************************************************************)
(* Survey configuration and point calculation (survey_app/survey_config.py)*)
(***************************************************************************)
Quarters == {"Q1-Q2", "Q3", "Q4"}

\* order_by('invitation__campaign__quarter'): the string order of the quarter codes
QuarterRank(q) == CASE q = "Q1-Q2" -> 1 [] q = "Q3" -> 2 [] q = "Q4" -> 3

CampKeys == Years \X Quarters

\* The faculty member whose invitations and responses are modelled
SurveyFaculty == "f1"

\* Subsections of the category configurations, in configuration order
SubsOf(cat) ==
    CASE cat = "citizenship" -> <<"committees", "dept_activities">>
      [] cat = "education" -> <<"lectures">>
      [] cat = "research" -> <<"grant_review", "thesis_committees">>
      [] cat = "content_expert" -> <<"publications_peer">>
      [] OTHER -> <<>>

SurveyCats == {"citizenship", "education", "research", "content_expert"}

\* 'carry_forward': True
CarryForward(sub) == sub \in {"committees", "grant_review", "thesis_committees"}

PV_unmc == 1000
PV_nebmed == 500
PV_minor == 100
PV_other == 0
PV_gr_host == 300
PV_gr_attend == 50
PV_lecture_new == 250
PV_nih_standing == 5000
PV_nih_adhoc == 2500
PV_thesis_member == 1000
PV_pub_peer_first_senior_per_if == 1000
PV_pub_peer_coauth_per_if == 300

\* The survey keys whose points the model follows; each is mapped to the data_variable
\* of an ActivityType by SURVEY_TO_DB_MAPPING
PointKeys == {"unmc", "nebmed", "minor", "other", "gr_host", "gr_attend", "lecture_new",
              "nih_standing", "nih_adhoc", "thesis_member",
              "pub_peer_first_senior_per_if", "pub_peer_coauth_per_if"}

DEFAULT_POINT_VALUES ==
    [k \in PointKeys |->
        CASE k = "unmc" -> PV_unmc
          [] k = "nebmed" -> PV_nebmed
          [] k = "minor" -> PV_minor
          [] k = "other" -> PV_other
          [] k = "gr_host" -> PV_gr_host
          [] k = "gr_attend" -> PV_gr_attend
          [] k = "lecture_new" -> PV_lecture_new
          [] k = "nih_standing" -> PV_nih_standing
          [] k = "nih_adhoc" -> PV_nih_adhoc
          [] k = "thesis_member" -> PV_thesis_member
          [] k = "pub_peer_first_senior_per_if" -> PV_pub_peer_first_senior_per_if
          [] k = "pub_peer_coauth_per_if" -> PV_pub_peer_coauth_per_if]

\* get_all_point_values: the defaults, overridden by the base points of the active types
get_all_point_values(types) ==
    [k \in PointKeys |->
        IF types[k].exists /\ types[k].is_active THEN types[k].base_points
        ELSE DEFAULT_POINT_VALUES[k]]

\* get_point_value: a key without a mapping takes DEFAULT_POINT_VALUES.get(key, 0); a
\* mapped key takes the base points of its ActivityType row, or else its default
get_point_value(survey_key) ==
    IF survey_key \notin PointKeys THEN 0
    ELSE IF activity_types[survey_key].exists THEN activity_types[survey_key].base_points
    ELSE DEFAULT_POINT_VALUES[survey_key]

\* get_point_value applied to a survey key
GetPointValue(survey_key) ==
    /\ rendered' = [kind |-> "point_value", key |-> survey_key,
                    points |-> get_point_value(survey_key)]
    /\ UNCHANGED <<activity_types, point_values, inflight, rosterVars, deptVars, recVars,
                   surveyVars, reviewVars>>

\* The name of the subsection's radio field with choices ("" when it has none)
RadioField(sub) ==
    CASE sub = "publications_peer" -> "role"
      [] sub = "thesis_committees" -> ""
      [] OTHER -> "type"

\* The choice values of the subsection's radio field, in configuration order
ChoicesOf(sub) ==
    CASE sub = "committees" -> <<"unmc", "nebmed", "minor", "other">>
      [] sub = "dept_activities" -> <<"gr_host", "gr_attend">>
      [] sub = "lectures" -> <<"lecture_new">>
      [] sub = "grant_review" -> <<"nih_standing", "nih_adhoc">>
      [] sub = "publications_peer" -> <<"first_senior", "coauth">>
      [] OTHER -> <<>>

\* The POINT_VALUES key a choice takes its points from
ChoiceKey(value) ==
    CASE value = "first_senior" -> "pub_peer_first_senior_per_if"
      [] value = "coauth" -> "pub_peer_coauth_per_if"
      [] OTHER -> value

\* The points of a radio choice of the subsection (0 when the value is no choice): the
\* configuration holds the POINT_VALUES the process loaded when it started
ChoicePoints(sub, value) ==
    IF \E i \in 1..Len(ChoicesOf(sub)) : ChoicesOf(sub)[i] = value
    THEN point_values[ChoiceKey(value)]
    ELSE 0

\* 'points_per_entry' of the subsection (0 when it has none)
PointsPerEntry(sub) == IF sub = "thesis_committees" THEN point_values["thesis_member"] ELSE 0

\* The server process starts: survey_config is imported, POINT_VALUES = _load_point_values()
ProcessStart ==
    /\ point_values' = get_all_point_values(activity_types)
    /\ UNCHANGED <<activity_types, rendered, inflight, rosterVars, deptVars, recVars,
                   surveyVars, reviewVars>>

\* The value of the entry's radio field ("" when the key is missing)
Selected(sub, e) ==
    CASE RadioField(sub) = "type" -> e.type
      [] RadioField(sub) = "role" -> e.role
      [] OTHER -> ""

\* min(pts for _, _, pts in field['choices'] if pts > 0), 0 when no choice has points
MinNonZeroPoints(sub) ==
    LET pts == {ChoicePoints(sub, ChoicesOf(sub)[i]) : i \in 1..Len(ChoicesOf(sub))}
        non_zero == {x \in pts : x > 0}
    IN  IF non_zero = {} THEN 0 ELSE CHOOSE x \in non_zero : \A y \in non_zero : x <= y

\* The points of the entry's radio field: the selected choice's, or the lowest non-zero
\* choice when the entry has no selection
RadioPoints(sub, e) ==
    IF RadioField(sub) = "" THEN 0
    ELSE IF Selected(sub, e) # "" /\ Selected(sub, e) # "99"
         THEN ChoicePoints(sub, Selected(sub, e))
    ELSE IF Selected(sub, e) = "" THEN MinNonZeroPoints(sub)
    ELSE 0

\* int(x): truncation toward zero of a value given in tenths
IntOfTenths(t) == IF t >= 0 THEN t \div 10 ELSE -((-t) \div 10)

ImpactFactorCapTenths == 150

\* entry.get('impact_factor', 0) of a missing key
MissingImpactFactor(x) == IF x.kind = "missing" THEN 0 ELSE x.tenths

\* int(entry_points * min(float(entry.get('impact_factor', 0)), 15)); a text that
\* float() rejects raises ValueError and leaves the points as they are, and so does
\* int(0 * -inf) = int(nan); with other points int(-inf) raises OverflowError
\* (ImpactFactorFails)
ImpactFactorPoints(entry_points, x) ==
    IF x.kind \in {"text", "neg_inf"} THEN entry_points
    ELSE IntOfTenths(entry_points * Min(MissingImpactFactor(x), ImpactFactorCapTenths))

\* int(entry_points * -inf) with entry_points # 0: OverflowError, which the except
\* clause (ValueError, TypeError) does not catch
ImpactFactorFails(entry_points, x) == x.kind = "neg_inf" /\ entry_points # 0

EntryFails(sub, e) ==
    sub = "publications_peer" /\ ImpactFactorFails(RadioPoints(sub, e), e.impact_factor)

EntryPoints(sub, e) ==
    IF sub = "publications_peer"
    THEN ImpactFactorPoints(RadioPoints(sub, e), e.impact_factor)
    ELSE RadioPoints(sub, e)

RECURSIVE SumEntryPoints(_, _)
SumEntryPoints(sub, entries) ==
    IF entries = <<>> THEN 0
    ELSE EntryPoints(sub, Head(entries)) + SumEntryPoints(sub, Tail(entries))

NewEntriesKeepCarried(entries) == entries

\* new_entries = [e for e in entries if not e.get('_carried_from')]
NewEntries(entries) == SelectSeq(entries, LAMBDA e : e.carried_from = "")

\* calculate_subsection_points raises instead of returning
SubsectionFails(sub, sub_data) ==
    /\ sub_data.present
    /\ PointsPerEntry(sub) = 0
    /\ \E i \in 1..Len(sub_data.entries) :
          sub_data.entries[i].carried_from = "" /\ EntryFails(sub, sub_data.entries[i])

calculate_subsection_points(sub, sub_data) ==
    IF ~sub_data.present THEN 0
    ELSE IF PointsPerEntry(sub) # 0
         THEN Len(NewEntries(sub_data.entries)) * PointsPerEntry(sub)
    ELSE SumEntryPoints(sub, NewEntries(sub_data.entries))

RECURSIVE SumSubsections(_, _)
SumSubsections(subs, cat_data) ==
    IF subs = <<>> THEN 0
    ELSE calculate_subsection_points(Head(subs), cat_data.subs[Head(subs)])
         + SumSubsections(Tail(subs), cat_data)

calculate_category_points(cat, cat_data) == SumSubsections(SubsOf(cat), cat_data)

\* calculate_category_points raises: one of its subsections does
CategoryFails(cat, cat_data) ==
    \E i \in 1..Len(SubsOf(cat)) : SubsectionFails(SubsOf(cat)[i], cat_data.subs[SubsOf(cat)[i]])

\* extract_carry_forward_data: the carry-forward subsections answered 'yes' with entries
ExtractHas(data, cat, sub) ==
    /\ CarryForward(sub)
    /\ TreeHas(data, cat, sub)
    /\ data[cat].subs[sub].trigger = "yes"
    /\ data[cat].subs[sub].entries # <<>>

(***************************************************************************)
(* Faculty survey views (survey_app/views.py)                              *)
(***************************************************************************)
\* A timestamp column that is set; the time itself is not followed
Timestamp == Some(0)

\* SurveyCampaign.is_open: active, and now within opens_at .. closes_at.  A campaign row
\* keeps where now is with respect to that window.
CampaignWindows == {"before", "during", "after"}

is_openWhileInactive(campaign) == campaign.window = "during"

is_open(campaign) == campaign.is_active /\ campaign.window = "during"

\* A SurveyInvitation row: accessed is first_accessed_at being set, confirmations counts
\* the confirmation emails logged for it
NoInvitation == [exists |-> FALSE, status |-> "pending", accessed |-> FALSE,
                 submitted_at |-> None, confirmations |-> 0]
\* SurveyInvitation.objects.create(campaign = ..., faculty = ...)
NewInvitation == [NoInvitation EXCEPT !.exists = TRUE]
NoResponse == [exists |-> FALSE, response_data |-> EmptyTree, points |-> ZeroPoints,
               complete |-> {}]
\* SurveyResponse.objects.get_or_create(invitation = ...) on a missing row
NewResponse == [NoResponse EXCEPT !.exists = TRUE]

RECURSIVE TagCarried(_, _)
TagCarried(entries, q) ==
    IF entries = <<>> THEN <<>>
    ELSE <<[Head(entries) EXCEPT !.carried_from = q]>> \o TagCarried(Tail(entries), q)

\* previous_responses: the submitted responses of the same academic year, the current
\* campaign excluded
CarrySources(ck) ==
    {q \in Quarters : /\ q # ck[2]
                      /\ response[<<ck[1], q>>].exists
                      /\ invitation[<<ck[1], q>>].exists
                      /\ invitation[<<ck[1], q>>].status = "submitted"}

\* The quarter whose data ends up in merged_data[cat][sub]: the last one in quarter order
CarryQuarter(ck, cat, sub) ==
    LET qs == {q \in CarrySources(ck) : ExtractHas(response[<<ck[1], q>>].response_data, cat, sub)}
    IN  IF qs = {} THEN ""
        ELSE CHOOSE q \in qs : \A r \in qs : QuarterRank(r) <= QuarterRank(q)

\* _get_carry_forward_data_for_faculty
GetCarryForwardData(ck) ==
    LET subOf(cat, sb) ==
            LET q == CarryQuarter(ck, cat, sb)
            IN  IF q = "" THEN AbsentSub
                ELSE LET src == response[<<ck[1], q>>].response_data[cat].subs[sb]
                     IN  DictSub(src.trigger, TagCarried(src.entries, q))
    IN  [cat \in Cats |->
            [present |-> \E sb \in Subs : CarryQuarter(ck, cat, sb) # "",
             subs |-> [sb \in Subs |-> subOf(cat, sb)]]]

\* A mutant of mark_accessed that moves any status to in_progress on the first access.
MarkAccessedAnyStatus(inv) ==
    IF inv.accessed THEN inv ELSE [inv EXCEPT !.accessed = TRUE, !.status = "in_progress"]

\* SurveyInvitation.mark_accessed
MarkAccessed(inv) ==
    IF inv.accessed THEN inv
    ELSE [inv EXCEPT !.accessed = TRUE,
                     !.status = IF @ = "pending" THEN "in_progress" ELSE @]

\* survey_landing on an open campaign
SurveyLanding(ck) ==
    LET created == ~response[ck].exists
    IN  /\ campaigns[ck].exists /\ invitation[ck].exists
        /\ is_open(campaigns[ck])
        /\ invitation' = [invitation EXCEPT ![ck] = MarkAccessed(@)]
        /\ response' = [response EXCEPT ![ck] =
              IF created
              THEN [NewResponse EXCEPT !.response_data = GetCarryForwardData(ck)]
              ELSE @]
        /\ UNCHANGED <<auxVars, campaigns, rosterVars, deptVars, recVars, reviewVars>>

\* One posted row of a subsection whose other fields are followed: the values of its
\* radio field, of its text fields (other) and of its impact factor
FieldRow(radio, other, impact_factor) ==
    [radio |-> radio, other |-> other, impact_factor |-> impact_factor]

RowEntry(sub, row) ==
    [MkEntry(IF RadioField(sub) = "type" THEN row.radio ELSE "", "", "", 0)
        EXCEPT !.role = IF RadioField(sub) = "role" THEN row.radio ELSE "",
               !.other = row.other,
               !.impact_factor = row.impact_factor]

\* has_data and entry.get('type') != '99'
RowKept(sub, row) ==
    /\ row.radio # "" \/ row.other # "" \/ row.impact_factor.kind # "missing"
    /\ ~(RadioField(sub) = "type" /\ row.radio = "99")

RECURSIVE ProcessFieldRows(_, _)
ProcessFieldRows(sub, rows) ==
    IF rows = <<>> THEN <<>>
    ELSE (IF RowKept(sub, Head(rows)) THEN <<RowEntry(sub, Head(rows))>> ELSE <<>>)
         \o ProcessFieldRows(sub, Tail(rows))

\* The subsections whose posted rows are FieldRows
FieldSubs == {"grant_review", "thesis_committees", "publications_peer"}

\* One posted row of a repeating subsection: the value of its 'type' field
\* ("" = the row is blank, "99" = the opt-out choice).
RECURSIVE ProcessRows(_)
ProcessRows(rows) ==
    IF rows = <<>> THEN <<>>
    ELSE (IF Head(rows) # "" /\ Head(rows) # "99"
          THEN <<MkEntry(Head(rows), "", "", 0)>> ELSE <<>>) \o ProcessRows(Tail(rows))

InSeq(x, sq) == \E i \in 1..Len(sq) : sq[i] = x

\* _process_category_form_from_config: form[sub] = [trigger, rows]
ProcessCategoryForm(cat, form) ==
    [present |-> TRUE,
     subs |-> [sb \in Subs |->
                 IF InSeq(sb, SubsOf(cat))
                 THEN DictSub(form[sb].trigger,
                              IF sb \in FieldSubs THEN ProcessFieldRows(sb, form[sb].rows)
                              ELSE ProcessRows(form[sb].rows))
                 ELSE AbsentSub]]

\* survey_category (GET) on an open campaign: the response row is created when missing
SurveyCategoryGet(ck, cat) ==
    /\ cat \in SurveyCats
    /\ campaigns[ck].exists /\ invitation[ck].exists
    /\ is_open(campaigns[ck])
    /\ ~response[ck].exists
    /\ response' = [response EXCEPT ![ck] = NewResponse]
    /\ UNCHANGED <<auxVars, campaigns, invitation, rosterVars, deptVars, recVars, reviewVars>>

\* survey_category (POST) on an open campaign
SurveyCategoryPost(ck, cat, form) ==
    LET resp == IF response[ck].exists THEN response[ck] ELSE NewResponse
        category_data == ProcessCategoryForm(cat, form)
    IN  /\ cat \in SurveyCats
        /\ campaigns[ck].exists /\ invitation[ck].exists
        /\ is_open(campaigns[ck])
        /\ ~CategoryFails(cat, category_data)
        /\ response' = [response EXCEPT ![ck] =
              [resp EXCEPT !.response_data[cat] = category_data,
                           !.points[cat] = calculate_category_points(cat, category_data),
                           !.complete = @ \cup {cat}]]
        /\ UNCHANGED <<auxVars, campaigns, invitation, rosterVars, deptVars, recVars, reviewVars>>

\* survey_category (POST) when calculate_category_points raises: the response row that
\* get_or_create made stays, nothing of the form is saved, the request fails
SurveyCategoryPostFails(ck, cat, form) ==
    LET resp == IF response[ck].exists THEN response[ck] ELSE NewResponse
        category_data == ProcessCategoryForm(cat, form)
    IN  /\ cat \in SurveyCats
        /\ campaigns[ck].exists /\ invitation[ck].exists
        /\ is_open(campaigns[ck])
        /\ CategoryFails(cat, category_data)
        /\ response' = [response EXCEPT ![ck] = resp]
        /\ rendered' = [kind |-> "error"]
        /\ UNCHANGED <<activity_types, point_values, inflight, campaigns, invitation,
                       rosterVars, deptVars, recVars, reviewVars>>

\* A mutant of the merge that adds the response's total to the stored one.
MergeTotalAccumulate(rec, resp) == rec.survey_total_points + SumCats(resp.points)

\* faculty_data.survey_total_points = response.total_points
MergeTotal(rec, resp) == SumCats(resp.points)

\* _merge_response_to_faculty_data
MergeResponseToFacultyData(rec0, resp, quarter) ==
    LET rec == IF rec0.exists THEN rec0 ELSE NewFsd
    IN  [rec EXCEPT
            !.activities_json = [c \in Cats |->
                IF resp.response_data[c].present THEN resp.response_data[c] ELSE @[c]],
            !.points = resp.points,
            !.survey_total_points = MergeTotal(rec, resp),
            !.quarters_reported = @ \cup {quarter}]

\* SurveyInvitation.mark_submitted
mark_submitted(inv) == [inv EXCEPT !.status = "submitted", !.submitted_at = Timestamp]

\* survey_submit on an open campaign: the response is merged, the invitation is marked
\* submitted, and the confirmation email is sent unless the invitation was submitted
\* already
SurveySubmit(ck) ==
    LET is_resubmission == invitation[ck].status = "submitted"
    IN  /\ campaigns[ck].exists /\ invitation[ck].exists
        /\ is_open(campaigns[ck])
        /\ response[ck].exists
        /\ is_resubmission \/ invitation[ck].confirmations < MaxEmails
        /\ fsd' = [fsd EXCEPT ![<<SurveyFaculty, ck[1]>>] =
                      MergeResponseToFacultyData(@, response[ck], ck[2])]
        /\ invitation' = [invitation EXCEPT ![ck] =
               [mark_submitted(@) EXCEPT
                   !.confirmations = IF is_resubmission THEN @ ELSE @ + 1]]
    /\ UNCHANGED <<auxVars, campaigns, response, survey_imports, rosterVars, deptVars, reviewVars>>

\* survey_save_draft on an open campaign: the response row is created when missing; a
\* body that is not JSON is answered with an error, a body without a category with
\* success, and a body with a category fails on the undefined name
\* _calculate_category_points before response.save() is reached
DraftBodies == {"invalid", "no_category", "category"}

SurveySaveDraft(ck, body) ==
    /\ body \in DraftBodies
    /\ campaigns[ck].exists /\ invitation[ck].exists
    /\ is_open(campaigns[ck])
    /\ response' = [response EXCEPT ![ck] = IF @.exists THEN @ ELSE NewResponse]
    /\ rendered' = [kind |-> "draft",
                    result |-> CASE body = "invalid" -> "Invalid JSON"
                                 [] body = "no_category" -> "success"
                                 [] body = "category" -> "NameError"]
    /\ UNCHANGED <<activity_types, point_values, inflight, campaigns, invitation,
                   rosterVars, deptVars, recVars, reviewVars>>

\* survey_landing, survey_category, survey_save_draft and survey_submit on a campaign
\* that is not open: an error or the closed page, before anything is read or written
FacultyPages == {"survey_landing", "survey_category", "survey_save_draft", "survey_submit"}

SurveyPageClosed(ck, page) ==
    /\ page \in FacultyPages
    /\ campaigns[ck].exists /\ invitation[ck].exists
    /\ ~is_open(campaigns[ck])
    /\ rendered' = [kind |-> "closed", page |-> page]
    /\ UNCHANGED <<activity_types, point_values, inflight, rosterVars, deptVars, recVars,
                   surveyVars, reviewVars>>

\* invitation_unlock: a submitted invitation goes back to in_progress with submitted_at
\* cleared; any other invitation is left alone
InvitationUnlock(ck) ==
    /\ invitation[ck].exists
    /\ invitation' = [invitation EXCEPT ![ck] =
           IF @.status # "submitted" THEN @
           ELSE [@ EXCEPT !.status = "in_progress", !.submitted_at = None]]
    /\ rendered' = [kind |-> "message",
                    text |-> IF invitation[ck].status # "submitted"
                             THEN "not submitted" ELSE "unlocked"]
    /\ UNCHANGED <<activity_types, point_values, inflight, campaigns, response,
                   rosterVars, deptVars, recVars, reviewVars>>

\* campaign_update_faculty for the faculty member: selected and not invited, an
\* invitation is created; invited and not selected, the invitation is deleted (its
\* response and email logs with it) unless it is submitted, or in progress with a
\* response row
UpdateFacultySkips(inv, resp) ==
    \/ inv.status = "submitted"
    \/ inv.status = "in_progress" /\ resp.exists

CampaignUpdateFaculty(ck, selected) ==
    LET inv == invitation[ck]
        to_add == selected /\ ~inv.exists
        to_remove == ~selected /\ inv.exists
        skipped == to_remove /\ UpdateFacultySkips(inv, response[ck])
        removed == to_remove /\ ~skipped
    IN  /\ campaigns[ck].exists
        /\ invitation' = [invitation EXCEPT ![ck] =
               IF to_add THEN NewInvitation ELSE IF removed THEN NoInvitation ELSE @]
        /\ response' = [response EXCEPT ![ck] = IF removed THEN NoResponse ELSE @]
        /\ rendered' = [kind |-> "faculty_updated",
                        added_count |-> IF to_add THEN 1 ELSE 0,
                        removed_count |-> IF removed THEN 1 ELSE 0,
                        skipped_count |-> IF skipped THEN 1 ELSE 0]
        /\ UNCHANGED <<activity_types, point_values, inflight, campaigns,
                       rosterVars, deptVars, recVars, reviewVars>>

\* campaign_edit (POST): is_active and the window dates are written as posted
CampaignEdit(ck, is_active, window) ==
    /\ window \in CampaignWindows
    /\ campaigns[ck].exists
    /\ campaigns' = [campaigns EXCEPT ![ck].is_active = is_active, ![ck].window = window]
    /\ UNCHANGED <<auxVars, invitation, response, rosterVars, deptVars, recVars, reviewVars>>

\* timezone.now() passes opens_at, then closes_at
TimePasses(ck) ==
    /\ campaigns[ck].exists
    /\ campaigns[ck].window # "after"
    /\ campaigns' = [campaigns EXCEPT ![ck].window =
                        IF @ = "before" THEN "during" ELSE "after"]
    /\ UNCHANGED <<auxVars, invitation, response, rosterVars, deptVars, recVars, reviewVars>>

\* calculate_subsection_points applied to a stored subsection of a response
CalculateSubsection(ck, cat, sb) ==
    /\ response[ck].exists
    /\ InSeq(sb, SubsOf(cat))
    /\ rendered' = IF SubsectionFails(sb, response[ck].response_data[cat].subs[sb])
                   THEN [kind |-> "error"]
                   ELSE [kind |-> "subsection", sub |-> sb,
                         points |-> calculate_subsection_points(
                                        sb, response[ck].response_data[cat].subs[sb])]
    /\ UNCHANGED <<activity_types, point_values, inflight, rosterVars, deptVars, recVars,
                   surveyVars, reviewVars>>

(***************************************************************************)
(* faculty_annual_view: the category points of the current academic year   *)
(***************************************************************************)
RECURSIVE SumSubmitted(_, _)
SumSubmitted(qs, cat) ==
    IF qs = {} THEN 0
    ELSE LET q == CHOOSE x \in qs : TRUE
         IN  (IF invitation[<<CurrentYear, q>>].status = "submitted"
              THEN response[<<CurrentYear, q>>].points[cat] ELSE 0)
             + SumSubmitted(qs \ {q}, cat)

AnnualResponses == {q \in Quarters : response[<<CurrentYear, q>>].exists}

AnnualSurveyPoints(cat) == SumSubmitted(AnnualResponses, cat)

AnnualCategoryPoints(f, cat) ==
    IF f = SurveyFaculty /\ AnnualResponses # {} /\ \E c \in Cats : AnnualSurveyPoints(c) > 0
    THEN AnnualSurveyPoints(cat)
    ELSE IF fsd[<<f, CurrentYear>>].exists THEN fsd[<<f, CurrentYear>>].points[cat] ELSE 0

(***************************************************************************)
(* Points summary export and faculty summary (reports_app/views.py)        *)
(***************************************************************************)
\* db_export_points: the "Departmental Points" column of one row
ExportDeptPoints(f, y) == IF dept[<<f, y>>].exists THEN departmental_total_points(f, y) ELSE 0

\* db_export_points: the "CCC Points" column
ExportCccPoints(f) == IF faculty[f].is_ccc_member THEN PV_ccc_member ELSE 0

\* db_export_points: the "Total Points" column
ExportTotal(f, y) ==
    fsd[<<f, y>>].survey_total_points + ExportDeptPoints(f, y) + ExportCccPoints(f)

\* faculty_summary: grand_total of one active faculty member
SummaryGrandTotal(f, y) ==
    (IF fsd[<<f, y>>].exists THEN SumCats(fsd[<<f, y>>].points) ELSE 0)
    + (IF dept[<<f, y>>].exists THEN departmental_total_points(f, y) ELSE 0)

(***************************************************************************)
(* Initial state: an empty database with the roster loaded                 *)
(***************************************************************************)
Keys == Faculty \X Years

InitFaculty ==
    faculty = [f \in Faculty |->
                 [is_active |-> TRUE, is_ccc_member |-> FALSE, is_avc_eligible |-> TRUE]]
\* The years of the records exist; the year of today's date is the current one
InitYears ==
    academic_years = [y \in YearCodes |-> [exists |-> y \in Years, is_current |-> y = CurrentYear]]
InitRoster == InitFaculty /\ InitYears
InitDept == dept = [k \in Keys |-> NoDept]
InitRec == fsd = [k \in Keys |-> NoFsd] /\ survey_imports = <<>>
InitReview == reviews = {} /\ annual = [k \in Keys |-> "absent"]

\* No ActivityType rows; the process has loaded the default point values
InitConfig ==
    /\ activity_types = [k \in PointKeys |-> NoActivityType]
    /\ point_values = get_all_point_values(activity_types)

NoRequest == [phase |-> "idle"]

InitAux == InitConfig /\ rendered = NoRender /\ inflight = NoRequest

(***************************************************************************)
(* Parsed CSV files used as import inputs                                  *)
(***************************************************************************)
ImpEntry(type) == MkEntry(type, "", "", 0)

TreeA1 == TreeSet(EmptyTree, "citizenship", "committees", ListSub(<<ImpEntry("unmc")>>))
TreeA2 == TreeSet(EmptyTree, "education", "lectures", ListSub(<<ImpEntry("lecture_new")>>))
TreeB1 == TreeSet(EmptyTree, "citizenship", "dept_activities",
                  ListSub(<<ImpEntry("gr_host"), ImpEntry("gr_attend")>>))

PointsOf(cit, edu) == [ZeroPoints EXCEPT !["citizenship"] = cit, !["education"] = edu]

FileA == [filename |-> "a.csv",
          rows |-> << ParsedRow("f1", TreeA1, PointsOf(1000, 0), {"Q1-Q2"}),
                      ParsedRow("zz", TreeA2, PointsOf(0, 250), {"Q1-Q2"}),
                      ParsedRow("f2", TreeA2, PointsOf(0, 250), {"Q1-Q2"}) >>]
FileB == [filename |-> "b.csv",
          rows |-> << ParsedRow("F1", TreeB1, PointsOf(350, 0), {"Q1-Q2", "Q3"}) >>]

(***************************************************************************)
(* SpecDept: departmental data entry, CCC membership and the exports       *)
(***************************************************************************)
RawCounts == {0, 5, MytipCap, MytipCap + 1, MaxRawCount}
DeptFaculty == {"f1"}
DeptFieldsTried == {"new_innovations", "mytip_winner", "teacher_of_year"}

\* No survey campaign has been created
InitSurveyNone ==
    /\ campaigns = [ck \in CampKeys |-> [exists |-> FALSE, is_active |-> FALSE, window |-> "during"]]
    /\ invitation = [ck \in CampKeys |-> NoInvitation]
    /\ response = [ck \in CampKeys |-> NoResponse]

InitDeptSpec == InitAux /\ InitRoster /\ InitDept /\ InitRec /\ InitReview /\ InitSurveyNone

NextDept ==
    \/ \E f \in DeptFaculty, y \in Years, v \in RawCounts : DepartmentalUpdateMytip(f, y, v)
    \/ \E f \in DeptFaculty, y \in Years, fld \in DeptFieldsTried, b \in BOOLEAN :
            DepartmentalUpdateFlag(f, y, fld, b)
    \/ \E f \in DeptFaculty, y \in Years, b \in BOOLEAN :
            DepartmentalUpdateFaculty(f, y, "is_ccc_member", b)
    \/ \E f \in DeptFaculty, y \in Years : DepartmentalUpdateOther(f, y)
    \/ \E f \in DeptFaculty, y \in Years, v \in RawCounts : ModelSave(f, y, v)
    \/ \E f \in DeptFaculty : ToggleCcc(f)
    \/ \E y \in Years : ImportConfirm(FileB, y)

SpecDept == InitDeptSpec /\ [][NextDept]_vars

\* C5: the stored mytip_count never exceeds 20: a departmental_update or a save with a
\* larger value stores 20, which contributes 20 x 25 = 500 evaluation points.
C5_MytipClamped ==
    /\ \A k \in Keys : dept[k].mytip_count <= 20
    /\ [][ /\ \A k \in Keys : dept'[k].mytip_count <= 20
           /\ \A f \in DeptFaculty, y \in Years, v \in RawCounts :
                (v > 20 /\ (DepartmentalUpdateMytip(f, y, v) \/ ModelSave(f, y, v)))
                => /\ dept'[<<f, y>>].mytip_count = 20
                   /\ evaluations_points(dept'[<<f, y>>])
                        = evaluations_points([dept'[<<f, y>>] EXCEPT !.mytip_count = 0]) + 500
        ]_vars

C5_Witness ==
    \E k \in Keys : dept[k].exists /\ dept[k].mytip_count = 20 /\ dept[k].mytip_winner

\* C7: in the points export, Total Points = survey points + departmental total (CCC counted
\* once), which is the grand total faculty_summary shows.
C7_ExportTotal ==
    \A f \in Faculty, y \in Years :
        (fsd[<<f, y>>].exists /\ faculty[f].is_active)
        => /\ ExportTotal(f, y) = fsd[<<f, y>>].survey_total_points
                                   + evaluations_points(dept[<<f, y>>])
                                   + teaching_awards_points(dept[<<f, y>>])
                                   + ccc_points(f)
           /\ ExportTotal(f, y) = SummaryGrandTotal(f, y)

\* The record has the evaluation flags of the scenario and no teaching award
ScenarioFlags(rec) ==
    /\ rec.exists /\ rec.new_innovations /\ rec.mytip_winner
    /\ ~rec.teaching_top_25 /\ ~rec.teaching_65_25
    /\ ~rec.teacher_of_year /\ ~rec.honorable_mention

\* C16: the departmental total is evaluations + teaching awards + CCC points, the CCC
\* points being 1000 or 0 by the faculty member's flag in every year; with new_innovations,
\* mytip_winner and a mytip_count of 22 (stored as 20) of a CCC member the evaluations are
\* 2750, the teaching awards 0, the CCC points 1000 and the total 3750.
C16_DepartmentalTotal ==
    \A f \in DeptFaculty, y \in Years :
        LET rec == dept[<<f, y>>]
            rec22 == [rec EXCEPT !.mytip_count = 22]
        IN  /\ departmental_total_points(f, y)
                 = evaluations_points(rec) + teaching_awards_points(rec)
                   + (IF faculty[f].is_ccc_member THEN 1000 ELSE 0)
            /\ \A y2 \in Years : ccc_points(f) = departmental_total_points(f, y2)
                   - evaluations_points(dept[<<f, y2>>]) - teaching_awards_points(dept[<<f, y2>>])
            /\ ScenarioFlags(rec)
               => /\ evaluations_points(rec22) = 2750
                  /\ teaching_awards_points(rec22) = 0
                  /\ (faculty[f].is_ccc_member /\ rec.mytip_count = 20)
                     => /\ evaluations_points(rec) = 2750
                        /\ ccc_points(f) = 1000
                        /\ departmental_total_points(f, y) = 3750

C16_Witness ==
    \E f \in DeptFaculty, y \in Years :
        /\ ScenarioFlags(dept[<<f, y>>])
        /\ dept[<<f, y>>].mytip_count = 20
        /\ faculty[f].is_ccc_member
        /\ departmental_total_points(f, y) = 3750

(***************************************************************************)
(* SpecReview: the review overlay next to imports, manual edits and one    *)
(* survey                                                                  *)
(***************************************************************************)
MaxIndex == 1
ReviewFaculty == {"f1"}
ReviewCats == {"citizenship"}
ReviewSubs == {"committees"}
ReviewIdx == 0..MaxIndex
ReviewCampaign == <<CurrentYear, "Q1-Q2">>

\* The citizenship form posted in SpecReview: one committee, no department activity
FormR == [sb \in {"committees", "dept_activities"} |->
            IF sb = "committees" THEN [trigger |-> "yes", rows |-> <<"nebmed">>]
            ELSE [trigger |-> "no", rows |-> <<>>]]

\* One open campaign with the faculty member invited
InitSurveyOne ==
    /\ campaigns = [ck \in CampKeys |->
                      [exists |-> ck = ReviewCampaign, is_active |-> ck = ReviewCampaign,
                       window |-> "during"]]
    /\ invitation = [ck \in CampKeys |-> [NoInvitation EXCEPT !.exists = (ck = ReviewCampaign)]]
    /\ response = [ck \in CampKeys |-> NoResponse]

InitReviewSpec == InitAux /\ InitRoster /\ InitDept /\ InitRec /\ InitReview /\ InitSurveyOne

NextReview ==
    \/ \E f \in ReviewFaculty : VerifyAll(f)
    \/ \E f \in ReviewFaculty : UnverifyAll(f)
    \/ \E f \in ReviewFaculty, cat \in ReviewCats : VerifySection(f, cat)
    \/ \E f \in ReviewFaculty, a \in {"verify", "flag", "strike"},
          cat \in ReviewCats, sb \in ReviewSubs, i \in ReviewIdx : ReviewEntry(f, a, cat, sb, i)
    \/ \E f \in ReviewFaculty, cat \in ReviewCats, sb \in ReviewSubs, i \in ReviewIdx :
          ClearEntry(f, cat, sb, i)
    \/ ImportConfirm(FileA, CurrentYear)
    \/ \E f \in ReviewFaculty : AddActivityForm(f, CurrentYear, "citizenship", "committees", "minor", 100)
    \/ \E f \in ReviewFaculty : DeleteActivity(f, CurrentYear, "citizenship", "committees", 0)
    \/ SurveyCategoryPost(ReviewCampaign, "citizenship", FormR)
    \/ SurveySubmit(ReviewCampaign)

SpecReview == InitReviewSpec /\ [][NextReview]_vars

\* C8: whenever some activity review of a faculty-year is flagged or stricken, the annual
\* review of that faculty-year has status has_issues.
C8_IssuesImplyHasIssues ==
    \A f \in Faculty, y \in Years :
        HasIssues(reviews, f, y) => annual[<<f, y>>] = "has_issues"

\* C9: a verified annual review loses that status only through unverify_all or through
\* flagging or striking an entry, and an annual review becomes verified only through
\* verify_all.
C9_VerifiedIsSticky ==
    [][ \A f \in ReviewFaculty :
          LET k == <<f, CurrentYear>>
          IN  /\ (annual[k] = "verified" /\ annual'[k] # "verified")
                 => \/ UnverifyAll(f)
                    \/ \E a \in {"flag", "strike"}, cat \in ReviewCats,
                          sb \in ReviewSubs, i \in ReviewIdx : ReviewEntry(f, a, cat, sb, i)
              /\ (annual[k] # "verified" /\ annual'[k] = "verified") => VerifyAll(f)
      ]_vars

OneReviewPerEntry(rs) ==
    /\ \A r1, r2 \in rs :
          (/\ r1.faculty = r2.faculty /\ r1.year = r2.year /\ r1.category = r2.category
           /\ r1.subcategory = r2.subcategory /\ r1.idx = r2.idx) => r1 = r2
    /\ \A r \in rs : r.status \in {"verified", "flagged", "stricken"}

\* C10: an entry (faculty, year, category, subcategory, index) has at most one review
\* record, with status verified, flagged or stricken; verify, flag and strike leave the
\* entry with exactly the record of that status whatever it was before, and clear leaves
\* it with no record.
C10_OneReviewPerEntry ==
    /\ OneReviewPerEntry(reviews)
    /\ [][ /\ OneReviewPerEntry(reviews')
           /\ \A f \in ReviewFaculty, cat \in ReviewCats, sb \in ReviewSubs, i \in ReviewIdx :
                /\ \A a \in {"verify", "flag", "strike"} :
                      ReviewEntry(f, a, cat, sb, i)
                      => ReviewsOf(reviews', f, CurrentYear, cat, sb, i)
                           = {ReviewRow(f, CurrentYear, cat, sb, i, StatusMap(a))}
                /\ ClearEntry(f, cat, sb, i)
                      => ReviewsOf(reviews', f, CurrentYear, cat, sb, i) = {}
        ]_vars

C10_Witness ==
    \E r1, r2 \in reviews :
        /\ r1.faculty = r2.faculty /\ r1.idx # r2.idx
        /\ r1.status = "stricken" /\ r2.status = "verified"

(***************************************************************************)
(* SpecImport: CSV imports interleaved with manual activity edits          *)
(***************************************************************************)
ImportFiles == {FileA, FileB}
ManualTypes == {"minor", "other"}
ManualFaculty == {"f1"}

NextImport ==
    \/ \E file \in ImportFiles, y \in Years : ImportConfirm(file, y)
    \/ \E f \in ManualFaculty, t \in ManualTypes :
          AddActivityForm(f, CurrentYear, "citizenship", "committees", t, 100)
    \/ \E f \in ManualFaculty, i \in 0..(MaxManual - 1), t \in ManualTypes :
          EditActivity(f, CurrentYear, "citizenship", "committees", i, t, 50)
    \/ \E f \in ManualFaculty, i \in 0..(MaxManual - 1) :
          DeleteActivity(f, CurrentYear, "citizenship", "committees", i)

InitImportSpec == InitAux /\ InitRoster /\ InitDept /\ InitRec /\ InitReview /\ InitSurveyNone

SpecImport == InitImportSpec /\ [][NextImport]_vars

\* The rows of a file that belong to roster member f
RowsFor(file, f) == SelectSeq(file.rows, LAMBDA row : RosterLookup(row.email) = f)

\* C1: an import_confirm leaves the manual_activities_json of every record as it was and
\* makes the activities_json of every matched record exactly the tree the file holds for
\* that faculty member (an unmatched record keeps its tree).
C1_ImportFrame ==
    [][ \A file \in ImportFiles, y \in Years :
          ImportConfirm(file, y)
          => \A f \in Faculty, y2 \in Years :
                LET k == <<f, y2>>
                    mine == RowsFor(file, f)
                IN  /\ fsd'[k].manual_activities_json = fsd[k].manual_activities_json
                    /\ IF y2 = y /\ mine # <<>>
                       THEN /\ fsd'[k].exists
                            /\ fsd'[k].activities_json = mine[Len(mine)].activities
                       ELSE fsd'[k].activities_json = fsd[k].activities_json
      ]_vars

\* An import over a record that holds manual entries and another imported tree
C1_Witness ==
    /\ Len(survey_imports) = 2
    /\ survey_imports[1].filename # survey_imports[2].filename
    /\ \E k \in Keys :
          /\ fsd[k].survey_import = 2
          /\ Len(ManualList(fsd[k], "citizenship", "committees")) = 2

Stored(rec) == <<rec.points, rec.survey_total_points, rec.activities_json>>

\* C3: between imports the manual add, edit and delete leave the six point totals and
\* activities_json of every record unchanged, and an import_confirm of the file the last
\* import (same year) was made from leaves them unchanged for every matched record too,
\* with every manual entry still in place.
C3_ReimportIdempotent ==
    [][ /\ survey_imports' = survey_imports
           => \A k \in Keys : Stored(fsd'[k]) = Stored(fsd[k])
        /\ \A file \in ImportFiles, y \in Years :
             (/\ ImportConfirm(file, y)
              /\ survey_imports # <<>>
              /\ survey_imports[Len(survey_imports)].filename = file.filename
              /\ survey_imports[Len(survey_imports)].academic_year = y)
             => \A f \in Faculty :
                   RowsFor(file, f) # <<>>
                   => /\ Stored(fsd'[<<f, y>>]) = Stored(fsd[<<f, y>>])
                      /\ fsd'[<<f, y>>].manual_activities_json
                           = fsd[<<f, y>>].manual_activities_json
      ]_vars

\* The same file imported twice with a manual entry added in between
C3_Witness ==
    /\ Len(survey_imports) = 2
    /\ survey_imports[1].filename = survey_imports[2].filename
    /\ survey_imports[1].academic_year = survey_imports[2].academic_year
    /\ \E k \in Keys :
          /\ fsd[k].survey_import = 2
          /\ ManualList(fsd[k], "citizenship", "committees") # <<>>

(***************************************************************************)
(* Survey campaigns of the specifications below                            *)
(***************************************************************************)
OtherYear == "25-26"

\* The campaigns in cks exist and are open, with the faculty member invited to each
InitSurveyWith(cks) ==
    /\ campaigns = [ck \in CampKeys |-> [exists |-> ck \in cks, is_active |-> ck \in cks, window |-> "during"]]
    /\ invitation = [ck \in CampKeys |-> [NoInvitation EXCEPT !.exists = (ck \in cks)]]
    /\ response = [ck \in CampKeys |-> NoResponse]

CitizenshipForm(ctrigger, crows, dtrigger, drows) ==
    [sb \in {"committees", "dept_activities"} |->
        IF sb = "committees" THEN [trigger |-> ctrigger, rows |-> crows]
        ELSE [trigger |-> dtrigger, rows |-> drows]]

EducationForm(trigger, rows) == [sb \in {"lectures"} |-> [trigger |-> trigger, rows |-> rows]]

RECURSIVE TypesOf(_)
TypesOf(entries) ==
    IF entries = <<>> THEN <<>> ELSE <<Head(entries).type>> \o TypesOf(Tail(entries))

\* The citizenship form as the category page shows it for the stored response (the
\* committees rows and trigger of response_data), with drows as department activities
DisplayedForm(ck, drows) ==
    LET sub == response[ck].response_data["citizenship"].subs["committees"]
    IN  CitizenshipForm(IF sub.present THEN sub.trigger ELSE "",
                        IF sub.present THEN TypesOf(sub.entries) ELSE <<>>,
                        IF drows = <<>> THEN "no" ELSE "yes", drows)

(***************************************************************************)
(* SpecCarry: committees reported in Q1-Q2, then the Q3 and Q4 surveys     *)
(***************************************************************************)
CarryCampaigns == {CurrentYear} \X Quarters
FirstCampaign == <<CurrentYear, "Q1-Q2">>
LaterCampaigns == CarryCampaigns \ {FirstCampaign}
FormFirst == CitizenshipForm("yes", <<"unmc">>, "yes", <<"gr_host">>)
LaterDeptRows == {<<>>, <<"gr_attend">>}

InitCarrySpec == InitAux /\ InitRoster /\ InitDept /\ InitRec /\ InitReview /\ InitSurveyWith(CarryCampaigns)

NextCarry ==
    \/ \E ck \in CarryCampaigns : SurveyLanding(ck)
    \/ SurveyCategoryPost(FirstCampaign, "citizenship", FormFirst)
    \/ \E ck \in LaterCampaigns, drows \in LaterDeptRows :
          /\ response[ck].exists
          /\ SurveyCategoryPost(ck, "citizenship", DisplayedForm(ck, drows))
    \/ \E ck \in CarryCampaigns : SurveySubmit(ck)

SpecCarry == InitCarrySpec /\ [][NextCarry]_vars

SubEntries(ck, cat, sub) ==
    IF response[ck].exists /\ TreeHas(response[ck].response_data, cat, sub)
    THEN response[ck].response_data[cat].subs[sub].entries ELSE <<>>

RECURSIVE SumDeptSubmitted(_)
SumDeptSubmitted(cks) ==
    IF cks = {} THEN 0
    ELSE LET ck == CHOOSE x \in cks : TRUE
         IN  (IF invitation[ck].status = "submitted"
              THEN SumEntryPoints("dept_activities", SubEntries(ck, "citizenship", "dept_activities"))
              ELSE 0) + SumDeptSubmitted(cks \ {ck})

\* C2: with committees submitted in Q1-Q2 and entered in no other quarter, the annual
\* citizenship total is the points of those committees, once, plus the department
\* activities of the submitted quarters.
C2_CarriedCountedOnce ==
    (/\ invitation[FirstCampaign].status = "submitted"
     /\ SubEntries(FirstCampaign, "citizenship", "committees") # <<>>)
    => AnnualCategoryPoints(SurveyFaculty, "citizenship")
         = SumEntryPoints("committees", SubEntries(FirstCampaign, "citizenship", "committees"))
           + SumDeptSubmitted(CarryCampaigns)

(***************************************************************************)
(* SpecLanding: responses created in any order of the quarters             *)
(***************************************************************************)
LandingCampaigns == (({CurrentYear} \X Quarters) \cup {<<OtherYear, "Q1-Q2">>})

\* The committee each campaign's form reports, told apart by its type
CommitteeOf(ck) ==
    IF ck[1] = OtherYear THEN "other"
    ELSE CASE ck[2] = "Q1-Q2" -> "unmc" [] ck[2] = "Q3" -> "nebmed" [] ck[2] = "Q4" -> "minor"

LandingForms(ck) ==
    IF ck[2] = "Q3"
    THEN {CitizenshipForm("yes", <<CommitteeOf(ck)>>, "yes", <<"gr_host">>),
          CitizenshipForm("no", <<>>, "yes", <<"gr_host">>)}
    ELSE {CitizenshipForm("yes", <<CommitteeOf(ck)>>, "yes", <<"gr_host">>)}

InitLandingSpec ==
    InitAux /\ InitRoster /\ InitDept /\ InitRec /\ InitReview /\ InitSurveyWith(LandingCampaigns)

NextLanding ==
    \/ \E ck \in LandingCampaigns : SurveyLanding(ck)
    \/ \E ck \in LandingCampaigns : SurveyCategoryGet(ck, "citizenship")
    \/ \E ck \in LandingCampaigns : \E form \in LandingForms(ck) :
          SurveyCategoryPost(ck, "citizenship", form)
    \/ \E ck \in LandingCampaigns : SurveySubmit(ck)

SpecLanding == InitLandingSpec /\ [][NextLanding]_vars

\* The earlier quarters of the same year whose submitted response holds the subsection
EarlierSources(ck, cat, sub) ==
    {q \in Quarters : /\ QuarterRank(q) < QuarterRank(ck[2])
                      /\ response[<<ck[1], q>>].exists
                      /\ invitation[<<ck[1], q>>].status = "submitted"
                      /\ ExtractHas(response[<<ck[1], q>>].response_data, cat, sub)}

ExpectedSub(ck, cat, sub) ==
    LET qs == EarlierSources(ck, cat, sub)
    IN  IF qs = {} THEN AbsentSub
        ELSE LET q == CHOOSE x \in qs : \A r \in qs : QuarterRank(r) <= QuarterRank(x)
                 src == response[<<ck[1], q>>].response_data[cat].subs[sub]
             IN  DictSub(src.trigger, TagCarried(src.entries, q))

\* C4: a survey_landing that creates the response fills each carry-forward subsection with
\* the entries of the most recent earlier quarter of the same year whose submitted response
\* holds it, tagged with that quarter, and fills in nothing else.
C4_PrefillFromEarlier ==
    [][ \A ck \in LandingCampaigns :
          (SurveyLanding(ck) /\ ~response[ck].exists)
          => \A cat \in Cats, sb \in Subs :
                response'[ck].response_data[cat].subs[sb] = ExpectedSub(ck, cat, sb)
      ]_vars

(***************************************************************************)
(* SpecTotals: imports, survey submissions and manual edits of one record  *)
(***************************************************************************)
TotalsCampaigns == {<<CurrentYear, "Q1-Q2">>, <<CurrentYear, "Q3">>}
TotalsFile == FileB
TotalsCats == {"citizenship", "education"}
TotalsForms(cat) ==
    IF cat = "citizenship"
    THEN {CitizenshipForm("yes", <<"unmc", "99">>, "yes", <<"gr_host", "", "gr_attend">>)}
    ELSE {EducationForm("yes", <<"lecture_new">>)}

InitTotalsSpec ==
    InitAux /\ InitRoster /\ InitDept /\ InitRec /\ InitReview /\ InitSurveyWith(TotalsCampaigns)

NextTotals ==
    \/ ImportConfirm(TotalsFile, CurrentYear)
    \/ \E ck \in TotalsCampaigns : SurveyLanding(ck)
    \/ \E ck \in TotalsCampaigns, cat \in TotalsCats : \E form \in TotalsForms(cat) :
          SurveyCategoryPost(ck, cat, form)
    \/ \E ck \in TotalsCampaigns : SurveySubmit(ck)
    \/ AddActivityForm(SurveyFaculty, CurrentYear, "education", "lectures", "lecture_new", 250)
    \/ EditActivity(SurveyFaculty, CurrentYear, "education", "lectures", 0, "lecture_new", 100)
    \/ DeleteActivity(SurveyFaculty, CurrentYear, "education", "lectures", 0)

SpecTotals == InitTotalsSpec /\ [][NextTotals]_vars

\* C6: the survey_total_points of every FacultySurveyData record is the sum of its five
\* category point fields.
C6_TotalIsSum ==
    \A k \in Keys : fsd[k].survey_total_points = SumCats(fsd[k].points)

\* A record written by an import and then by the submission of two quarters
C6_Witness ==
    \E k \in Keys :
        /\ fsd[k].survey_import > 0
        /\ fsd[k].quarters_reported = {"Q1-Q2", "Q3"}
        /\ fsd[k].points["citizenship"] > 0 /\ fsd[k].points["education"] > 0
        /\ ManualList(fsd[k], "education", "lectures") # <<>>

(***************************************************************************)
(* SpecCalc: activity types are created and edited, and their points are   *)
(* calculated for counts and impact factors around the caps.               *)
(***************************************************************************)
CalcKey == "gr_attend"
CalcBasePoints == {25, 1000}
CalcMaxCounts == {None, Some(0), Some(20)}
CalcMaxPoints == {None, Some(0), Some(5000)}
CalcCounts == {0, 5, 25}
CalcImpactFactors == {0, 7, 20}

InitCalcSpec ==
    InitAux /\ InitRoster /\ InitDept /\ InitRec /\ InitReview /\ InitSurveyNone

NextCalc ==
    \/ \E b \in CalcBasePoints, m \in ModifierChoices,
          mc \in CalcMaxCounts, mp \in CalcMaxPoints :
          ActivityTypeCreate(CalcKey, b, m, mc, mp)
    \/ \E b \in CalcBasePoints, m \in ModifierChoices,
          mc \in CalcMaxCounts, mp \in CalcMaxPoints, a \in BOOLEAN :
          ActivityTypeEdit(CalcKey, b, m, mc, mp, a)
    \/ \E b \in CalcBasePoints : ActivityTypeQuickEdit(CalcKey, b)
    \/ \E c \in CalcCounts, i \in CalcImpactFactors : CalculatePoints(CalcKey, c, i)

SpecCalc == InitCalcSpec /\ [][NextCalc]_vars

\* The type whose points are calculated
CalcType == activity_types[CalcKey]

\* C11: a count-modifier type (without a max_points cap) yields
\* base_points x min(count, max_count) for every set max_count, zero included,
\* and base_points x count when max_count is not set
C11_CountModifier ==
    [][\A c \in CalcCounts, i \in CalcImpactFactors :
          (/\ CalculatePoints(CalcKey, c, i)
           /\ CalcType.modifier_type = "count"
           /\ ~CalcType.max_points.set)
          => rendered'.points =
                 CalcType.base_points
                 * (IF CalcType.max_count.set THEN Min(c, CalcType.max_count.value) ELSE c)]_vars

\* C12: whenever max_points is set, to any value, the result never exceeds it
C12_NeverAboveMaxPoints ==
    [][\A c \in CalcCounts, i \in CalcImpactFactors :
          (CalculatePoints(CalcKey, c, i) /\ CalcType.max_points.set)
          => rendered'.points <= CalcType.max_points.value]_vars

\* C13 as stated: an impact-factor type yields base_points x clamp(impact_factor, 1, 15),
\* whatever its other columns hold
C13_ImpactFactorLiteral ==
    [][\A c \in CalcCounts, i \in CalcImpactFactors :
          (CalculatePoints(CalcKey, c, i) /\ CalcType.modifier_type = "impact_factor")
          => rendered'.points = CalcType.base_points * Max(1, Min(i, 15))]_vars

\* C13 amended: an impact-factor type with no max_points set yields
\* base_points x clamp(impact_factor, 1, 15)
C13_ImpactFactor ==
    [][\A c \in CalcCounts, i \in CalcImpactFactors :
          (/\ CalculatePoints(CalcKey, c, i)
           /\ CalcType.modifier_type = "impact_factor"
           /\ ~CalcType.max_points.set)
          => rendered'.points = CalcType.base_points * Max(1, Min(i, 15))]_vars

\* base 1000 and no max_points: the impact factor 20 has given 15000
C13_Witness ==
    /\ rendered.kind = "points"
    /\ CalcType.modifier_type = "impact_factor"
    /\ ~CalcType.max_points.set
    /\ CalcType.base_points = 1000
    /\ rendered.impact_factor = 20
    /\ rendered.points = 15000

(***************************************************************************)
(* SpecScore: research subsections are posted in Q1-Q2, carried into Q3,   *)
(* and the points of the stored subsections are calculated.                *)
(***************************************************************************)
ScoreCampaigns == {<<CurrentYear, "Q1-Q2">>, <<CurrentYear, "Q3">>}

ResearchForm(gtrigger, grows, ttrigger, trows) ==
    [sb \in {"grant_review", "thesis_committees"} |->
        IF sb = "grant_review" THEN [trigger |-> gtrigger, rows |-> grows]
        ELSE [trigger |-> ttrigger, rows |-> trows]]

\* grant reviews: a standing review; a row with a study section but no review type; an ad
\* hoc review, an opt-out row and a blank row.  thesis committees: none, one or two.
ResearchForms ==
    {ResearchForm("yes", <<FieldRow("nih_standing", "x", NoImpactFactor)>>, "no", <<>>),
     ResearchForm("yes", <<FieldRow("", "x", NoImpactFactor)>>,
                  "yes", <<FieldRow("", "x", NoImpactFactor)>>),
     ResearchForm("yes", <<FieldRow("nih_adhoc", "x", NoImpactFactor),
                           FieldRow("99", "x", NoImpactFactor),
                           FieldRow("", "", NoImpactFactor)>>,
                  "yes", <<FieldRow("", "x", NoImpactFactor),
                           FieldRow("", "y", NoImpactFactor)>>)}

InitScoreSpec ==
    InitAux /\ InitRoster /\ InitDept /\ InitRec /\ InitReview /\ InitSurveyWith(ScoreCampaigns)

NextScore ==
    \/ \E ck \in ScoreCampaigns : SurveyLanding(ck)
    \/ \E ck \in ScoreCampaigns, form \in ResearchForms : SurveyCategoryPost(ck, "research", form)
    \/ \E ck \in ScoreCampaigns : SurveySubmit(ck)
    \/ \E ck \in ScoreCampaigns, sb \in {"grant_review", "thesis_committees"} :
          CalculateSubsection(ck, "research", sb)

SpecScore == InitScoreSpec /\ [][NextScore]_vars

RECURSIVE CountNotCarried(_)
CountNotCarried(entries) ==
    IF entries = <<>> THEN 0
    ELSE (IF Head(entries).carried_from = "" THEN 1 ELSE 0) + CountNotCarried(Tail(entries))

\* sum over the non-carried entries of the points of the selected radio choice
RECURSIVE SumSelectedChoices(_, _)
SumSelectedChoices(sb, entries) ==
    IF entries = <<>> THEN 0
    ELSE (IF Head(entries).carried_from = ""
          THEN ChoicePoints(sb, Selected(sb, Head(entries))) ELSE 0)
         + SumSelectedChoices(sb, Tail(entries))

\* the same, an entry without a selection counting the lowest non-zero choice points
RECURSIVE SumChoicesOrLowest(_, _)
SumChoicesOrLowest(sb, entries) ==
    IF entries = <<>> THEN 0
    ELSE (IF Head(entries).carried_from # "" THEN 0
          ELSE IF Selected(sb, Head(entries)) = "" THEN MinNonZeroPoints(sb)
          ELSE ChoicePoints(sb, Selected(sb, Head(entries))))
         + SumChoicesOrLowest(sb, Tail(entries))

StoredEntries(ck, cat, sb) == response[ck].response_data[cat].subs[sb].entries

\* C15 as stated: the result is (non-carried entries) x points_per_entry, or else the sum
\* over the non-carried entries of the points of the selected radio choice
C15_SelectedChoicesOnly ==
    [][\A ck \in ScoreCampaigns, sb \in {"grant_review", "thesis_committees"} :
          CalculateSubsection(ck, "research", sb)
          => rendered'.points =
                 IF sb = "thesis_committees"
                 THEN CountNotCarried(StoredEntries(ck, "research", sb)) * PV_thesis_member
                 ELSE SumSelectedChoices(sb, StoredEntries(ck, "research", sb))]_vars

\* C15 amended (subsections other than publications_peer): as stated, an entry without a
\* selected choice counting the lowest non-zero choice points of the field
C15_NonCarriedEntries ==
    [][\A ck \in ScoreCampaigns, sb \in {"grant_review", "thesis_committees"} :
          CalculateSubsection(ck, "research", sb)
          => rendered'.points =
                 IF sb = "thesis_committees"
                 THEN CountNotCarried(StoredEntries(ck, "research", sb)) * PV_thesis_member
                 ELSE SumChoicesOrLowest(sb, StoredEntries(ck, "research", sb))]_vars

\* the thesis committees carried into Q3 have been scored: they contribute 0
C15_Witness ==
    /\ rendered.kind = "subsection"
    /\ rendered.sub = "thesis_committees"
    /\ rendered.points = 0
    /\ \E ck \in ScoreCampaigns :
          /\ StoredEntries(ck, "research", "thesis_committees") # <<>>
          /\ \A i \in 1..Len(StoredEntries(ck, "research", "thesis_committees")) :
                StoredEntries(ck, "research", "thesis_committees")[i].carried_from # ""

\* The sum of the category points of the year's responses whose invitation is submitted
RECURSIVE SumOverSubmitted(_, _, _, _)
SumOverSubmitted(inv, resp, qs, cat) ==
    IF qs = {} THEN 0
    ELSE LET q == CHOOSE x \in qs : TRUE
         IN  (IF inv[<<CurrentYear, q>>].exists /\ inv[<<CurrentYear, q>>].status = "submitted"
              THEN resp[<<CurrentYear, q>>].points[cat] ELSE 0)
             + SumOverSubmitted(inv, resp, qs \ {q}, cat)

\* C24: after a submission the category points stored on the FacultySurveyData record
\* are, per category, the sum of the points of all submitted quarters of the year
C24_TotalsAggregateQuarters ==
    [][\A ck \in ScoreCampaigns :
          SurveySubmit(ck)
          => \A cat \in Cats :
                fsd'[<<SurveyFaculty, CurrentYear>>].points[cat]
                  = SumOverSubmitted(invitation', response', Quarters, cat)]_vars

(***************************************************************************)
(* SpecPubs: one peer-reviewed publication is posted with each role and    *)
(* with impact factors that are missing, not a number, below 1, in range   *)
(* and above 15.                                                           *)
(***************************************************************************)
PubCampaign == <<CurrentYear, "Q1-Q2">>

ContentExpertForm(trigger, rows) ==
    [sb \in {"publications_peer"} |-> [trigger |-> trigger, rows |-> rows]]

PubRoles == {"first_senior", "coauth"}
PubImpactFactors ==
    {NoImpactFactor, TextImpactFactor, NumberImpactFactor(-10), NumberImpactFactor(5),
     NumberImpactFactor(35), NumberImpactFactor(200)}
PubRow(role, x) == FieldRow(role, "x", x)
PubForm(role, x) == ContentExpertForm("yes", <<PubRow(role, x)>>)

InitPubsSpec ==
    InitAux /\ InitRoster /\ InitDept /\ InitRec /\ InitReview /\ InitSurveyWith({PubCampaign})

NextPubs ==
    \/ SurveyLanding(PubCampaign)
    \/ \E role \in PubRoles, x \in PubImpactFactors :
          SurveyCategoryPost(PubCampaign, "content_expert", PubForm(role, x))
    \/ SurveySubmit(PubCampaign)
    \/ CalculateSubsection(PubCampaign, "content_expert", "publications_peer")

SpecPubs == InitPubsSpec /\ [][NextPubs]_vars

\* The impact factor in tenths, clamped to 1..15, a missing or unparsable one being 1
ClampedImpactFactor(x) ==
    IF x.kind = "number" THEN Max(10, Min(x.tenths, 150)) ELSE 10

\* C14: a posted publication scores the role's base points x the impact factor clamped to
\* 1..15 (missing or unparsable: 1), which is never negative nor below the base points
C14_ImpactFactorClamped ==
    [][\A role \in PubRoles, x \in PubImpactFactors :
          SurveyCategoryPost(PubCampaign, "content_expert", PubForm(role, x))
          => /\ response'[PubCampaign].points["content_expert"]
                  = IntOfTenths(ChoicePoints("publications_peer", role) * ClampedImpactFactor(x))
             /\ response'[PubCampaign].points["content_expert"] >= 0
             /\ response'[PubCampaign].points["content_expert"]
                  >= ChoicePoints("publications_peer", role)]_vars

(***************************************************************************)
(* SpecRace: an import_confirm commits between the read and the save of a  *)
(* manual add, edit or delete of the same record                           *)
(***************************************************************************)
RaceFaculty == "f1"
RaceTypes == {"minor"}

InitRaceSpec == InitAux /\ InitRoster /\ InitDept /\ InitRec /\ InitReview /\ InitSurveyNone

NextRace ==
    \/ \E file \in ImportFiles : ImportConfirm(file, CurrentYear)
    \/ \E op \in ManualOps, i \in 0..(MaxManual - 1), t \in RaceTypes :
          ManualBegin(op, RaceFaculty, CurrentYear, "citizenship", "committees", i, t, 100)
    \/ ManualFinish

SpecRace == InitRaceSpec /\ [][NextRace]_vars

\* The tree that the file of the i-th import holds for faculty member f
ImportedTree(i, f) ==
    LET file == CHOOSE x \in ImportFiles : x.filename = survey_imports[i].filename
        mine == RowsFor(file, f)
    IN  mine[Len(mine)].activities

\* The imports of year y whose file has a row of f
ImportsOf(f, y) ==
    {i \in 1..Len(survey_imports) :
        /\ survey_imports[i].academic_year = y
        /\ RowsFor(CHOOSE x \in ImportFiles : x.filename = survey_imports[i].filename, f) # <<>>}

\* Once no request is in flight, the imported tree is the tree of the last imported file
ImportedIsLastFile ==
    inflight.phase = "idle"
    => \A y \in Years :
          ImportsOf(RaceFaculty, y) # {}
          => LET last == CHOOSE i \in ImportsOf(RaceFaculty, y) :
                             \A j \in ImportsOf(RaceFaculty, y) : j <= i
             IN  fsd[<<RaceFaculty, y>>].activities_json = ImportedTree(last, RaceFaculty)

\* C17: however an import_confirm and a manual add, edit or delete of the same record
\* interleave, once both have finished the manual tree is the one the manual request
\* computed and the imported tree is the tree of the imported file
C17_NoLostUpdate ==
    /\ ImportedIsLastFile
    /\ [][ /\ ImportedIsLastFile'
           /\ ManualFinish
              => fsd'[<<inflight.faculty, inflight.year>>].manual_activities_json
                   = inflight.survey_data.manual_activities_json ]_vars

(***************************************************************************)
(* SpecConfig: the base points of the UNMC committee type are edited while *)
(* the survey is being answered; the server process may restart.           *)
(***************************************************************************)
ConfigCampaign == <<CurrentYear, "Q1-Q2">>
ConfigKey == "unmc"
ConfigNewPoints == {PV_unmc, PV_unmc + PV_nebmed}
ConfigRows == {<<"unmc">>, <<"unmc", "minor">>}
ConfigForm(rows) == CitizenshipForm("yes", rows, "no", <<>>)

InitConfigSpec ==
    InitAux /\ InitRoster /\ InitDept /\ InitRec /\ InitReview /\ InitSurveyWith({ConfigCampaign})

NextConfig ==
    \/ ActivityTypeCreate(ConfigKey, PV_unmc, "fixed", None, None)
    \/ \E b \in ConfigNewPoints, a \in BOOLEAN :
          ActivityTypeEdit(ConfigKey, b, "fixed", None, None, a)
    \/ \E b \in ConfigNewPoints : ActivityTypeQuickEdit(ConfigKey, b)
    \/ ProcessStart
    \/ \E rows \in ConfigRows : SurveyCategoryPost(ConfigCampaign, "citizenship", ConfigForm(rows))
    \/ SurveySubmit(ConfigCampaign)

SpecConfig == InitConfigSpec /\ [][NextConfig]_vars

\* The points of the posted committees by the point values the database holds now
RECURSIVE PointsByDatabase(_)
PointsByDatabase(rows) ==
    IF rows = <<>> THEN 0
    ELSE get_all_point_values(activity_types)[Head(rows)] + PointsByDatabase(Tail(rows))

\* C18: a category saved after an edit of the base points is scored with the values the
\* activity types hold then, and an edit changes no stored total
C18_EditTakesEffect ==
    [][ /\ \A rows \in ConfigRows :
              SurveyCategoryPost(ConfigCampaign, "citizenship", ConfigForm(rows))
              => response'[ConfigCampaign].points["citizenship"] = PointsByDatabase(rows)
        /\ activity_types' # activity_types
           => /\ \A ck \in CampKeys : response'[ck].points = response[ck].points
              /\ \A k \in Keys : /\ fsd'[k].points = fsd[k].points
                                 /\ fsd'[k].survey_total_points = fsd[k].survey_total_points
      ]_vars

(***************************************************************************)
(* SpecRoster: imports of files with unknown emails while roster members   *)
(* are deactivated and reactivated                                         *)
(***************************************************************************)
RosterEdited == Faculty

InitRosterSpec == InitAux /\ InitRoster /\ InitDept /\ InitRec /\ InitReview /\ InitSurveyNone

NextRoster ==
    \/ \E f \in RosterEdited, a \in BOOLEAN : FacultyEdit(f, a, FALSE)
    \/ \E file \in ImportFiles, y \in Years : ImportConfirm(file, y)

SpecRoster == InitRosterSpec /\ [][NextRoster]_vars

\* The email equals, ignoring case, the email of an active roster member
IsActiveMember(email) ==
    \E f \in Faculty : faculty[f].is_active /\ Lower(f) = Lower(email)

RECURSIVE EmailsOf(_)
EmailsOf(rows) ==
    IF rows = <<>> THEN <<>> ELSE <<Head(rows).email>> \o EmailsOf(Tail(rows))

\* C19: an import_confirm over N rows has matched_count + len(unmatched_emails) = N, matches
\* exactly the rows whose email is, ignoring case, that of an active roster member, records
\* the other emails in the SurveyImport and still imports every matched row
C19_MatchedAndUnmatched ==
    [][ \A file \in ImportFiles, y \in Years :
          ImportConfirm(file, y)
          => LET r == ImportResult(file.rows, y)
                 N == Len(file.rows)
                 id == Len(survey_imports')
             IN  /\ r.matched_count + Len(r.unmatched_emails) = N
                 /\ r.matched_count
                      = Cardinality({i \in 1..N : IsActiveMember(file.rows[i].email)})
                 /\ survey_imports'[id].unmatched_emails
                      = SelectSeq(EmailsOf(file.rows), LAMBDA e : ~IsActiveMember(e))
                 /\ \A i \in 1..N :
                       IsActiveMember(file.rows[i].email)
                       => \E f \in Faculty :
                             /\ Lower(f) = Lower(file.rows[i].email)
                             /\ fsd'[<<f, y>>].exists
                             /\ fsd'[<<f, y>>].survey_import = id
      ]_vars

\* An import of three rows with an unknown email and the email of a deactivated member:
\* both are recorded and the remaining row is imported
C19_Witness ==
    \E i \in 1..Len(survey_imports) :
        /\ survey_imports[i].faculty_count = 3
        /\ survey_imports[i].unmatched_emails = <<"zz", "f2">>
        /\ fsd[<<"f1", survey_imports[i].academic_year>>].survey_import = i

(***************************************************************************)
(* SpecCombined: the activities page of a record that holds an imported    *)
(* tree, a submitted survey category and manual entries                    *)
(***************************************************************************)
CombinedCampaign == <<CurrentYear, "Q1-Q2">>
CombinedForm == CitizenshipForm("yes", <<"nebmed">>, "no", <<>>)
CombinedSubs == {"committees", "dept_activities"}

InitCombinedSpec ==
    InitAux /\ InitRoster /\ InitDept /\ InitRec /\ InitReview
    /\ InitSurveyWith({CombinedCampaign})

NextCombined ==
    \/ ImportConfirm(FileA, CurrentYear)
    \/ SurveyCategoryPost(CombinedCampaign, "citizenship", CombinedForm)
    \/ SurveySubmit(CombinedCampaign)
    \/ \E sb \in CombinedSubs :
          AddActivityForm(SurveyFaculty, CurrentYear, "citizenship", sb, "minor", 100)
    \/ \E sb \in CombinedSubs : DeleteActivity(SurveyFaculty, CurrentYear, "citizenship", sb, 0)
    \/ FacultyActivities(SurveyFaculty, CurrentYear)

SpecCombined == InitCombinedSpec /\ [][NextCombined]_vars

\* The entries a tree holds under a category and subsection
EntriesAt(tree, c, sb) == IF TreeHas(tree, c, sb) THEN tree[c].subs[sb].entries ELSE <<>>

\* C20: get_combined_activities returns, under every category and subsection, the imported
\* entries as stored followed by the manual entries as stored, each tagged
\* source = 'manual', and leaves both stored trees as they were
C20_ImportedThenManual ==
    [][ FacultyActivities(SurveyFaculty, CurrentYear)
        => LET rec == fsd[<<SurveyFaculty, CurrentYear>>]
           IN  /\ rendered'.kind = "combined"
               /\ \A c \in Cats, sb \in Subs :
                     LET man == EntriesAt(rec.manual_activities_json, c, sb)
                     IN  EntriesAt(rendered'.combined, c, sb)
                           = EntriesAt(rec.activities_json, c, sb)
                             \o [i \in 1..Len(man) |-> [man[i] EXCEPT !.source = "manual"]]
               /\ fsd' = fsd
      ]_vars

\* C21: a subsection stored as something other than a list of entries never makes
\* get_combined_activities fail, and every well-formed entry (an entry of a list-format
\* imported subsection, and every manual entry, tagged source = 'manual') is in the result
C21_MalformedSkipped ==
    [][ FacultyActivities(SurveyFaculty, CurrentYear)
        => LET rec == fsd[<<SurveyFaculty, CurrentYear>>]
           IN  /\ rendered'.kind # "error"
               /\ \A c \in Cats, sb \in Subs :
                     LET imp == EntriesAt(rec.activities_json, c, sb)
                         man == EntriesAt(rec.manual_activities_json, c, sb)
                         out == EntriesAt(rendered'.combined, c, sb)
                     IN  /\ \A i \in 1..Len(man) :
                               InSeq([man[i] EXCEPT !.source = "manual"], out)
                         /\ rec.activities_json[c].subs[sb].fmt = "list"
                               => \A i \in 1..Len(imp) : InSeq(imp[i], out)
      ]_vars

(***************************************************************************)
(* SpecManual: manual entries added, edited and deleted by index next to   *)
(* an imported tree and a submitted survey category                        *)
(***************************************************************************)
ManualSubs == {"committees", "dept_activities"}
ManualCats == {"citizenship", "unknown"}
ManualIndexes == 0..MaxManual

InitManualSpec ==
    InitAux /\ InitRoster /\ InitDept /\ InitRec /\ InitReview
    /\ InitSurveyWith({CombinedCampaign})

NextManual ==
    \/ ImportConfirm(FileA, CurrentYear)
    \/ AddActivityForm(SurveyFaculty, CurrentYear, "citizenship", "committees", "minor", 100)
    \/ \E i \in ManualIndexes :
          EditActivity(SurveyFaculty, CurrentYear, "citizenship", "committees", i, "other", 50)
    \/ \E i \in ManualIndexes :
          DeleteActivity(SurveyFaculty, CurrentYear, "citizenship", "committees", i)
    \/ \E op \in {"edit", "delete"}, cat \in ManualCats, sb \in ManualSubs, i \in ManualIndexes :
          ManualNotFound(op, SurveyFaculty, CurrentYear, cat, sb, i)
    \/ FacultyActivities(SurveyFaculty, CurrentYear)

SpecManual == InitManualSpec /\ [][NextManual]_vars

\* A list without its element at the zero-based index i
WithoutIndex(lst, i) == SubSeq(lst, 1, i) \o SubSeq(lst, i + 2, Len(lst))

\* The rows of a listed subsection that carry an index
IndexedRows(rows) == SelectSeq(rows, LAMBDA r : r.index.set)

\* C22: on the activities page the k-th manual entry of a subsection carries the index
\* k (zero-based, manual entries only); delete_activity with an index below the
\* length of the stored manual list removes exactly that entry, edit_activity rewrites
\* exactly that entry, and both leave every other manual entry and the imported tree
\* as they were; with an index at or beyond the length, or an unknown category or
\* subsection, nothing is changed
C22_IndexOnCurrentList ==
    [][ LET rec == fsd[<<SurveyFaculty, CurrentYear>>]
            rec1 == fsd'[<<SurveyFaculty, CurrentYear>>]
            Found(cat, sb, i) ==
                IF cat \in Cats THEN i < Len(ManualList(rec, cat, sb)) ELSE FALSE
        IN  /\ (FacultyActivities(SurveyFaculty, CurrentYear) /\ rendered'.kind = "combined")
                 => \A c \in Cats, sb \in Subs :
                       LET man == ManualList(rec, c, sb)
                           shown == IndexedRows(rendered'.activity_summary[c][sb])
                       IN  /\ Len(shown) = Len(man)
                           /\ \A k \in 1..Len(man) :
                                 /\ shown[k].index = Some(k - 1)
                                 /\ shown[k].entry = [man[k] EXCEPT !.source = "manual"]
                                 /\ shown[k].category = c /\ shown[k].subcategory = sb
            /\ \A cat \in ManualCats, sb \in ManualSubs, i \in ManualIndexes :
                  /\ DeleteActivity(SurveyFaculty, CurrentYear, cat, sb, i)
                       => /\ Found(cat, sb, i)
                          /\ \A c \in Cats, s2 \in Subs :
                                ManualList(rec1, c, s2) =
                                   IF c = cat /\ s2 = sb
                                   THEN WithoutIndex(ManualList(rec, c, s2), i)
                                   ELSE ManualList(rec, c, s2)
                          /\ rec1.activities_json = rec.activities_json
                  /\ EditActivity(SurveyFaculty, CurrentYear, cat, sb, i, "other", 50)
                       => /\ Found(cat, sb, i)
                          /\ \A c \in Cats, s2 \in Subs :
                                LET old == ManualList(rec, c, s2)
                                    new == ManualList(rec1, c, s2)
                                IN  /\ Len(new) = Len(old)
                                    /\ \A k \in 1..Len(old) :
                                          (c # cat \/ s2 # sb \/ k # i + 1) => new[k] = old[k]
                          /\ ManualList(rec1, cat, sb)[i + 1].type = "other"
                          /\ ManualList(rec1, cat, sb)[i + 1].points = 50
                          /\ rec1.activities_json = rec.activities_json
                  /\ \A op \in {"edit", "delete"} :
                        ( /\ ~Found(cat, sb, i)
                          /\ \/ ManualNotFound(op, SurveyFaculty, CurrentYear, cat, sb, i)
                             \/ DeleteActivity(SurveyFaculty, CurrentYear, cat, sb, i)
                             \/ EditActivity(SurveyFaculty, CurrentYear, cat, sb, i, "other", 50) )
                        => /\ fsd' = fsd
                           /\ rendered'.kind = "message"
                  /\ \A op \in {"edit", "delete"} :
                        ManualNotFound(op, SurveyFaculty, CurrentYear, cat, sb, i)
                        => ~Found(cat, sb, i)
      ]_vars

\* C22 witness: the page listed an imported entry and two manual entries with the
\* indexes 0 and 1, and afterwards the entry of index 0 was deleted, which left the
\* edited entry and the imported tree
C22_Witness ==
    LET rec == fsd[<<SurveyFaculty, CurrentYear>>]
    IN  /\ rendered.kind = "combined"
        /\ LET rows == rendered.activity_summary["citizenship"]["committees"]
           IN  /\ Len(rows) = 3
               /\ ~rows[1].index.set
               /\ rows[2].index = Some(0) /\ rows[2].entry.type = "minor"
               /\ rows[3].index = Some(1) /\ rows[3].entry.type = "other"
        /\ rec.exists
        /\ Len(ManualList(rec, "citizenship", "committees")) = 1
        /\ ManualList(rec, "citizenship", "committees")[1].type = "other"
        /\ EntriesAt(rec.activities_json, "citizenship", "committees") = <<ImpEntry("unmc")>>

(***************************************************************************)
(* SpecFallback: grant reviews and peer-reviewed publications posted with  *)
(* no choice, with a value that is no choice and with a choice, scored     *)
(* under point values that the registry has changed                        *)
(***************************************************************************)
FallbackCampaign == <<CurrentYear, "Q1-Q2">>
FallbackKeys == {"nih_adhoc", "nih_standing"}
FallbackRadios == {"", "legacy", "nih_standing"}
FallbackRoles == {"", "legacy", "coauth"}
FallbackLookups == {"nih_adhoc", "unmc", "legacy"}

FallbackResearchForms ==
    {ResearchForm("yes", <<FieldRow(r, "x", NoImpactFactor)>>, "no", <<>>) : r \in FallbackRadios}
    \cup {ResearchForm("yes", <<FieldRow("", "x", NoImpactFactor),
                                FieldRow("legacy", "y", NoImpactFactor)>>, "no", <<>>)}

FallbackImpactFactors == {NumberImpactFactor(20), NegInfImpactFactor}

FallbackPubForms ==
    {ContentExpertForm("yes", <<FieldRow(r, "x", x)>>) :
        r \in FallbackRoles, x \in FallbackImpactFactors}

InitFallbackSpec ==
    InitAux /\ InitRoster /\ InitDept /\ InitRec /\ InitReview
    /\ InitSurveyWith({FallbackCampaign})

NextFallback ==
    \/ \E k \in FallbackKeys : ActivityTypeCreate(k, 0, "fixed", None, None)
    \/ ProcessStart
    \/ \E form \in FallbackResearchForms : SurveyCategoryPost(FallbackCampaign, "research", form)
    \/ \E form \in FallbackPubForms :
          SurveyCategoryPost(FallbackCampaign, "content_expert", form)
    \/ \E form \in FallbackPubForms :
          SurveyCategoryPostFails(FallbackCampaign, "content_expert", form)
    \/ CalculateSubsection(FallbackCampaign, "research", "grant_review")
    \/ CalculateSubsection(FallbackCampaign, "content_expert", "publications_peer")
    \/ \E k \in FallbackLookups : GetPointValue(k)

SpecFallback == InitFallbackSpec /\ [][NextFallback]_vars

\* The points of the subsection's choices under the loaded point values
ChoicePointSet(sb) ==
    {point_values[ChoiceKey(ChoicesOf(sb)[i])] : i \in 1..Len(ChoicesOf(sb))}

\* The lowest non-zero point value among the choices (0 when no choice has points)
LowestNonZero(sb) ==
    LET non_zero == {p \in ChoicePointSet(sb) : p > 0}
    IN  IF non_zero = {} THEN 0 ELSE CHOOSE x \in non_zero : \A y \in non_zero : x <= y

IsChoice(sb, value) == \E i \in 1..Len(ChoicesOf(sb)) : ChoicesOf(sb)[i] = value

\* The sum of what the entries score when an entry without a selection scores the
\* lowest non-zero choice and an entry with a value that is no choice scores 0
RECURSIVE SumFallback(_, _)
SumFallback(sb, entries) ==
    IF entries = <<>> THEN 0
    ELSE LET value == Selected(sb, Head(entries))
         IN  (IF value = "" THEN LowestNonZero(sb)
              ELSE IF IsChoice(sb, value) THEN point_values[ChoiceKey(value)]
              ELSE 0)
             + SumFallback(sb, Tail(entries))

\* The entries of the subsection have no selection or a value that is no choice
NoKnownChoice(sb, entries) ==
    \A i \in 1..Len(entries) : ~IsChoice(sb, Selected(sb, entries[i]))

\* C23: scoring never fails on an entry whose type or role is missing or is no choice
\* of the subsection; an entry with no selected choice takes the lowest non-zero point
\* value among the choices, an entry with a value that is no choice scores 0, and
\* get_point_value of a key that has neither a registry mapping nor a default is 0
C23_FallbackNeverFails ==
    [][ /\ \A form \in FallbackPubForms :
              ( /\ NoKnownChoice("publications_peer",
                                 ProcessFieldRows("publications_peer",
                                                  form["publications_peer"].rows))
                /\ \/ SurveyCategoryPost(FallbackCampaign, "content_expert", form)
                   \/ SurveyCategoryPostFails(FallbackCampaign, "content_expert", form) )
              => /\ rendered'.kind # "error"
                 /\ response'[FallbackCampaign].response_data["content_expert"]
                       = ProcessCategoryForm("content_expert", form)
        /\ CalculateSubsection(FallbackCampaign, "research", "grant_review")
           => /\ rendered'.kind = "subsection"
              /\ rendered'.points =
                    SumFallback("grant_review",
                                StoredEntries(FallbackCampaign, "research", "grant_review"))
        /\ CalculateSubsection(FallbackCampaign, "content_expert", "publications_peer")
           => LET entries ==
                      StoredEntries(FallbackCampaign, "content_expert", "publications_peer")
              IN  /\ rendered'.kind = "subsection"
                  /\ (\A i \in 1..Len(entries) :
                          /\ Selected("publications_peer", entries[i]) # ""
                          /\ ~IsChoice("publications_peer",
                                       Selected("publications_peer", entries[i])))
                        => rendered'.points = 0
        /\ \A k \in FallbackLookups :
              (GetPointValue(k) /\ k \notin PointKeys) => rendered'.points = 0
      ]_vars

(***************************************************************************)
(* SpecLifecycle: one campaign and one invitation through access, saves,   *)
(* submission, unlock, resubmission, removal from the campaign and the     *)
(* campaign being deactivated or out of its window                         *)
(***************************************************************************)
LifeCampaign == <<CurrentYear, "Q1-Q2">>
LifeForms == {CitizenshipForm("yes", <<"nebmed">>, "no", <<>>),
              CitizenshipForm("yes", <<"unmc">>, "no", <<>>)}

InitLifecycleSpec ==
    InitAux /\ InitRoster /\ InitDept /\ InitRec /\ InitReview
    /\ InitSurveyWith({LifeCampaign})

NextLifecycle ==
    \/ SurveyLanding(LifeCampaign)
    \/ SurveyCategoryGet(LifeCampaign, "citizenship")
    \/ \E form \in LifeForms : SurveyCategoryPost(LifeCampaign, "citizenship", form)
    \/ \E body \in DraftBodies : SurveySaveDraft(LifeCampaign, body)
    \/ SurveySubmit(LifeCampaign)
    \/ \E page \in FacultyPages : SurveyPageClosed(LifeCampaign, page)
    \/ InvitationUnlock(LifeCampaign)
    \/ \E selected \in BOOLEAN : CampaignUpdateFaculty(LifeCampaign, selected)
    \/ \E is_active \in BOOLEAN, window \in CampaignWindows :
          CampaignEdit(LifeCampaign, is_active, window)
    \/ TimePasses(LifeCampaign)

SpecLifecycle == InitLifecycleSpec /\ [][NextLifecycle]_vars

\* A request through survey_category, survey_save_draft or survey_submit
FacultyEditStep ==
    \/ \E form \in LifeForms : SurveyCategoryPost(LifeCampaign, "citizenship", form)
    \/ \E body \in DraftBodies : SurveySaveDraft(LifeCampaign, body)
    \/ SurveySubmit(LifeCampaign)

\* C25: while the invitation's status is submitted, a request through survey_category,
\* survey_save_draft or survey_submit leaves the response data and the category points
\* as they were; they change again only after invitation_unlock
C25_SubmittedIsLocked ==
    [][(invitation[LifeCampaign].status = "submitted" /\ FacultyEditStep)
         => /\ response'[LifeCampaign].response_data = response[LifeCampaign].response_data
            /\ response'[LifeCampaign].points = response[LifeCampaign].points]_vars

\* C26: over any sequence of saves, submissions, unlocks and resubmissions the
\* confirmation email of an invitation is sent at most once
C26_OneConfirmation == invitation[LifeCampaign].confirmations <= 1

\* A category form has been saved on the response
HasSavedResponse(resp) == resp.exists /\ resp.complete # {}

\* C27: campaign_update_faculty on a deselected invitation that is submitted or has a
\* saved response keeps the invitation and its response and counts it as kept
C27_DataKept ==
    [][(/\ CampaignUpdateFaculty(LifeCampaign, FALSE)
        /\ invitation[LifeCampaign].exists
        /\ \/ invitation[LifeCampaign].status = "submitted"
           \/ HasSavedResponse(response[LifeCampaign]))
         => /\ invitation'[LifeCampaign] = invitation[LifeCampaign]
            /\ response'[LifeCampaign] = response[LifeCampaign]
            /\ rendered'.skipped_count = 1]_vars

\* The campaign is inactive, or now is before opens_at or after closes_at
NotOpen(campaign) == ~campaign.is_active \/ campaign.window \in {"before", "after"}

\* A request of an administrator that writes invitations or responses
AdminStep ==
    \/ InvitationUnlock(LifeCampaign)
    \/ \E selected \in BOOLEAN : CampaignUpdateFaculty(LifeCampaign, selected)

\* C28: while the campaign is not open (inactive, before opens_at or after closes_at)
\* the response data and points, the invitation's status and timestamps and the
\* FacultySurveyData records change by no request of the faculty survey pages: only an
\* administrator's unlock or faculty update writes them
C28_ClosedChangesNothing ==
    [][NotOpen(campaigns[LifeCampaign])
         => (UNCHANGED <<response, invitation, fsd>> \/ AdminStep)]_vars

\* A faculty page has answered with the closed page while the campaign was inactive
\* inside its window and the invitation held a saved, unsubmitted response
C28_Witness ==
    /\ rendered.kind = "closed" /\ rendered.page = "survey_submit"
    /\ ~campaigns[LifeCampaign].is_active /\ campaigns[LifeCampaign].window = "during"
    /\ invitation[LifeCampaign].status = "in_progress"
    /\ HasSavedResponse(response[LifeCampaign])
    /\ ~fsd[<<SurveyFaculty, CurrentYear>>].exists

StatusChoices == {"pending", "in_progress", "submitted"}

StatusInv ==
    LET inv == invitation[LifeCampaign]
    IN  /\ inv.status \in StatusChoices
        /\ inv.submitted_at.set <=> inv.status = "submitted"

StatusStep ==
    LET inv == invitation[LifeCampaign]
        inv2 == invitation'[LifeCampaign]
    IN  /\ SurveySubmit(LifeCampaign)
           => inv2.status = "submitted" /\ inv2.submitted_at.set
        /\ InvitationUnlock(LifeCampaign)
           => inv2 = IF inv.status = "submitted"
                     THEN [inv EXCEPT !.status = "in_progress", !.submitted_at = None]
                     ELSE inv
        /\ SurveyLanding(LifeCampaign)
           => /\ inv2.status = IF inv.status = "pending" /\ ~inv.accessed
                                THEN "in_progress" ELSE inv.status
              /\ inv2.accessed
              /\ inv2.submitted_at = inv.submitted_at
        /\ (inv.exists /\ inv2.exists /\ inv.status = "pending" /\ inv2.status # "pending")
           => \/ ~inv.accessed /\ inv2.accessed /\ inv2.status = "in_progress"
              \/ inv2.status = "submitted"
        /\ (inv.exists /\ inv2.exists /\ inv.status = "submitted" /\ inv2.status # "submitted")
           => InvitationUnlock(LifeCampaign)

\* C29: the invitation's status is always pending, in_progress or submitted and
\* submitted_at is set exactly when it is submitted; a submission sets both, an unlock
\* changes only a submitted invitation (to in_progress, submitted_at cleared), the first
\* access moves pending to in_progress and no access changes a submitted invitation
C29_StatusLifecycle == []StatusInv /\ [][StatusStep]_vars

\* An accessed invitation is submitted again after an unlock
C29_Witness ==
    /\ invitation[LifeCampaign].exists
    /\ invitation[LifeCampaign].status = "submitted"
    /\ invitation[LifeCampaign].accessed
    /\ invitation[LifeCampaign].confirmations = 2

(***************************************************************************)
(* SpecYears: the academic years of a fresh database, created, listed and  *)
(* set current                                                             *)
(***************************************************************************)
InitYearsSpec ==
    InitAux /\ InitFaculty /\ InitDept /\ InitRec /\ InitReview /\ InitSurveyNone
    /\ academic_years = [y \in YearCodes |-> NoYear]

NextYears ==
    \/ AcademicYearList
    \/ \E year_code \in YearCodes : SetCurrentYear(year_code)
    \/ \E year_code \in YearCodes : CreateYear(year_code)
    \/ \E f \in Faculty : ToggleCcc(f)

SpecYears == InitYearsSpec /\ [][NextYears]_vars

MarkedCurrent == {y \in YearCodes : academic_years[y].exists /\ academic_years[y].is_current}

\* A successful set_current_year leaves exactly the chosen year marked
ChosenIsCurrent ==
    \A y \in YearCodes :
        (SetCurrentYear(y) /\ academic_years[y].exists) => (MarkedCurrent' = {y})

\* No other request changes which year is marked
CurrentKept ==
    (MarkedCurrent # {} /\ ~(\E y \in YearCodes : SetCurrentYear(y)))
        => (MarkedCurrent' = MarkedCurrent)

\* C30: at most one academic year is marked current; the year a successful
\* set_current_year chose is the marked one, and the marked year stays the same until
\* set_current_year is called again
C30_ChosenYearStaysCurrent ==
    [](Cardinality(MarkedCurrent) <= 1) /\ [][ChosenIsCurrent /\ CurrentKept]_vars

====
